---- MODULE Spec2Model ----
(***************************************************************************)
(* A model of the CEFR reading test: the composite scoring engine, the     *)
(* transcription client, the phonetic analysis engine and the recording    *)
(* pipeline of the application object.                                     *)
(*                                                                         *)
(* Numbers.  JavaScript numbers that carry scores and durations are        *)
(* modelled as exact rationals <<n, d>> in lowest terms with d > 0, so     *)
(* that a comparison with a threshold and Math.round are decided exactly.  *)
(* On the argument sets used below the exact results equal the IEEE-754    *)
(* double results of the JavaScript code.                                  *)
(* Texts.  A string is modelled as the sequence of its whitespace          *)
(* separated tokens, a token as the sequence of its characters; the empty  *)
(* string is <<>>.                                                         *)
(***************************************************************************)
EXTENDS Integers, Sequences, FiniteSets, TLC

VARIABLES
    scIn,       \* arguments of the ScoringEngine.calculateScore call under study
    scOut,      \* the records it returned so far, in call order
    txIn,       \* what the network does to each successive request of one transcribeAudio call
    txOut,      \* the outcomes of the transcribeAudio calls made so far
    phFrame,    \* the frame of the analyzePhonetics invocation: its locals and the await it is at
    rpIn,       \* a scorer and the arguments it is called with repeatedly
    rpOut,      \* what the repeated calls returned, in call order
    app,            \* the fields of the CEFRReadingTest instance
    audioRecorder,  \* the fields of its AudioRecorder
    recordings,     \* the MediaRecorders created so far, and what each promise resolved to
    timers,         \* the pending setTimeout callbacks
    initializing,   \* the startRecording invocations waiting in audioRecorder.initialize()
    stops,          \* the frames of the stopRecording invocations, in order of invocation
    storage,        \* what StorageManager keeps in localStorage
    adaptiveTesting, \* the fields of the AdaptiveTestingEngine
    calls,          \* the calls made on a component studied on its own, with what they returned
    exerciseDatabase \* the exerciseDatabase of the PronunciationExerciseGenerator

scoreVars == <<scIn, scOut>>
txVars == <<txIn, txOut>>
phonVars == <<phFrame>>
repeatVars == <<rpIn, rpOut>>
appVars ==
    <<app, audioRecorder, recordings, timers, initializing, stops, storage, adaptiveTesting>>
vars == <<scoreVars, txVars, phonVars, repeatVars, appVars, calls, exerciseDatabase>>

\* a component on which no call has been made
ScoreIdle == scIn = <<>> /\ scOut = <<>>
TxIdle == txIn = <<>> /\ txOut = <<>>
PhonIdle == phFrame = <<>>
RepeatIdle == rpIn = <<>> /\ rpOut = <<>>
CallsIdle == calls = <<>>
GeneratorIdle == exerciseDatabase = <<>>
AppIdle ==
    /\ app = <<>> /\ audioRecorder = <<>> /\ recordings = <<>> /\ timers = <<>>
    /\ initializing = <<>> /\ stops = <<>> /\ storage = <<>> /\ adaptiveTesting = <<>>

\* JavaScript's undefined where a number is read (a missing property or
\* argument; NaN takes the same branches): no rational has denominator 0
NoNum == <<0, 0>>
\* JavaScript's undefined where a string is read: no character is "\\undefined"
NoText == << <<"\\undefined">> >>

-----------------------------------------------------------------------------
(* Exact rational arithmetic *)

RECURSIVE GCD(_, _)
GCD(a, b) == IF b = 0 THEN a ELSE GCD(b, a % b)

Abs(x) == IF x < 0 THEN -x ELSE x

\* the rational n/d in lowest terms with a positive denominator (d # 0)
Rat(n, d) ==
    LET g == GCD(Abs(n), Abs(d))
        s == IF d < 0 THEN -1 ELSE 1
    IN  <<(s * n) \div g, (s * d) \div g>>

RInt(k) == <<k, 1>>
RAdd(x, y) == Rat(x[1] * y[2] + y[1] * x[2], x[2] * y[2])
RSub(x, y) == Rat(x[1] * y[2] - y[1] * x[2], x[2] * y[2])
RMul(x, y) == Rat(x[1] * y[1], x[2] * y[2])
RDiv(x, y) == Rat(x[1] * y[2], x[2] * y[1])
RAbs(x) == <<Abs(x[1]), x[2]>>
RLe(x, y) == x[1] * y[2] <= y[1] * x[2]
RLt(x, y) == x[1] * y[2] < y[1] * x[2]
RMax(x, y) == IF RLe(x, y) THEN y ELSE x
RMin(x, y) == IF RLe(x, y) THEN x ELSE y
\* Math.round: the nearest integer, a half rounding up
Round(x) == (2 * x[1] + x[2]) \div (2 * x[2])

\* a JavaScript number that is falsy: undefined or 0 (NaN takes the same branches)
FalsyNum(x) == x = NoNum \/ x[1] = 0
\* a JavaScript string that is falsy: undefined or ""
FalsyText(t) == t = NoText \/ t = <<>>

-----------------------------------------------------------------------------
(* Texts *)

\* the characters used below that are no word character (\w)
PunctChars == {"?", "!", ",", ".", "-", "'", ";", ":"}

RECURSIVE SeqsUpTo(_, _)
SeqsUpTo(S, n) ==
    IF n = 0 THEN {<<>>}
    ELSE LET shorter == SeqsUpTo(S, n - 1)
         IN  shorter \cup {Append(s, x) : s \in {t \in shorter : Len(t) = n - 1}, x \in S}

\* "the cat sat"
TheCatSat == << <<"t", "h", "e">>, <<"c", "a", "t">>, <<"s", "a", "t">> >>

IsWordChar(c) == c \notin PunctChars
NonEmpty(w) == w # <<>>
\* token.replace(/[^\w\s]/g, '')
StripPunct(token) == SelectSeq(token, IsWordChar)

-----------------------------------------------------------------------------
(* cefrData.js *)

\* the names of C1 and A1 exchanged
GRADE_THRESHOLDS_exchanged ==
    << [grade |-> "C2", threshold |-> 92],
       [grade |-> "A1", threshold |-> 85],
       [grade |-> "B2", threshold |-> 75],
       [grade |-> "B1", threshold |-> 65],
       [grade |-> "A2", threshold |-> 55],
       [grade |-> "C1", threshold |-> 0] >>

GRADE_THRESHOLDS ==
    << [grade |-> "C2", threshold |-> 92],
       [grade |-> "C1", threshold |-> 85],
       [grade |-> "B2", threshold |-> 75],
       [grade |-> "B1", threshold |-> 65],
       [grade |-> "A2", threshold |-> 55],
       [grade |-> "A1", threshold |-> 0] >>

\* the weights of pronunciation and fluency exchanged
SCORING_WEIGHTS_exchanged ==
    [pronunciation |-> Rat(3, 10), fluency |-> Rat(4, 10),
     completeness |-> Rat(2, 10), clarity |-> Rat(1, 10)]

SCORING_WEIGHTS ==
    [pronunciation |-> Rat(4, 10), fluency |-> Rat(3, 10),
     completeness |-> Rat(2, 10), clarity |-> Rat(1, 10)]

ScoreKeys == <<"pronunciation", "fluency", "completeness", "clarity">>

-----------------------------------------------------------------------------
(* cefrData.js: the sentences of the six levels *)

CEFR_LEVELS ==
    [level \in {"A1", "A2", "B1", "B2", "C1", "C2"} |->
        CASE level = "A1" ->
            [sentences |-> <<
              \* "I am happy today"
              [idealDuration |-> 3, text |->
                  <<<<"I">>, <<"a","m">>, <<"h","a","p","p","y">>, <<"t","o","d","a","y">>>>],
              \* "The cat is black"
              [idealDuration |-> 3, text |->
                  <<<<"T","h","e">>, <<"c","a","t">>, <<"i","s">>, <<"b","l","a","c","k">>>>],
              \* "My name is John"
              [idealDuration |-> 3, text |->
                  <<<<"M","y">>, <<"n","a","m","e">>, <<"i","s">>, <<"J","o","h","n">>>>],
              \* "I like pizza very much"
              [idealDuration |-> 4, text |->
                  <<<<"I">>, <<"l","i","k","e">>, <<"p","i","z","z","a">>, <<"v","e","r","y">>,
                    <<"m","u","c","h">>>>],
              \* "The sun is bright"
              [idealDuration |-> 3, text |->
                  <<<<"T","h","e">>, <<"s","u","n">>, <<"i","s">>, <<"b","r","i","g","h","t">>>>]>>]
          [] level = "A2" ->
            [sentences |-> <<
              \* "I went to the store yesterday"
              [idealDuration |-> 4, text |->
                  <<<<"I">>, <<"w","e","n","t">>, <<"t","o">>, <<"t","h","e">>,
                    <<"s","t","o","r","e">>, <<"y","e","s","t","e","r","d","a","y">>>>],
              \* "She lives in a big house"
              [idealDuration |-> 4, text |->
                  <<<<"S","h","e">>, <<"l","i","v","e","s">>, <<"i","n">>, <<"a">>, <<"b","i","g">>,
                    <<"h","o","u","s","e">>>>],
              \* "We usually have breakfast at eight"
              [idealDuration |-> 5, text |->
                  <<<<"W","e">>, <<"u","s","u","a","l","l","y">>, <<"h","a","v","e">>,
                    <<"b","r","e","a","k","f","a","s","t">>, <<"a","t">>, <<"e","i","g","h","t">>>>],
              \* "The weather is very nice today"
              [idealDuration |-> 4, text |->
                  <<<<"T","h","e">>, <<"w","e","a","t","h","e","r">>, <<"i","s">>, <<"v","e","r","y">>,
                    <<"n","i","c","e">>, <<"t","o","d","a","y">>>>],
              \* "I can speak English a little"
              [idealDuration |-> 5, text |->
                  <<<<"I">>, <<"c","a","n">>, <<"s","p","e","a","k">>, <<"E","n","g","l","i","s","h">>,
                    <<"a">>, <<"l","i","t","t","l","e">>>>]>>]
          [] level = "B1" ->
            [sentences |-> <<
              \* "I have been working here for three years"
              [idealDuration |-> 5, text |->
                  <<<<"I">>, <<"h","a","v","e">>, <<"b","e","e","n">>, <<"w","o","r","k","i","n","g">>,
                    <<"h","e","r","e">>, <<"f","o","r">>, <<"t","h","r","e","e">>,
                    <<"y","e","a","r","s">>>>],
              \* "If I had more time, I would travel around the world"
              [idealDuration |-> 7, text |->
                  <<<<"I","f">>, <<"I">>, <<"h","a","d">>, <<"m","o","r","e">>,
                    <<"t","i","m","e",",">>, <<"I">>, <<"w","o","u","l","d">>,
                    <<"t","r","a","v","e","l">>, <<"a","r","o","u","n","d">>, <<"t","h","e">>,
                    <<"w","o","r","l","d">>>>],
              \* "The movie was more interesting than I expected"
              [idealDuration |-> 6, text |->
                  <<<<"T","h","e">>, <<"m","o","v","i","e">>, <<"w","a","s">>, <<"m","o","r","e">>,
                    <<"i","n","t","e","r","e","s","t","i","n","g">>, <<"t","h","a","n">>, <<"I">>,
                    <<"e","x","p","e","c","t","e","d">>>>],
              \* "She decided to quit her job and start her own business"
              [idealDuration |-> 8, text |->
                  <<<<"S","h","e">>, <<"d","e","c","i","d","e","d">>, <<"t","o">>, <<"q","u","i","t">>,
                    <<"h","e","r">>, <<"j","o","b">>, <<"a","n","d">>, <<"s","t","a","r","t">>,
                    <<"h","e","r">>, <<"o","w","n">>, <<"b","u","s","i","n","e","s","s">>>>],
              \* "Technology has changed the way we communicate"
              [idealDuration |-> 6, text |->
                  <<<<"T","e","c","h","n","o","l","o","g","y">>, <<"h","a","s">>,
                    <<"c","h","a","n","g","e","d">>, <<"t","h","e">>, <<"w","a","y">>, <<"w","e">>,
                    <<"c","o","m","m","u","n","i","c","a","t","e">>>>]>>]
          [] level = "B2" ->
            [sentences |-> <<
              \* "The comprehensive analysis revealed significant discrepancies in the data"
              [idealDuration |-> 8, text |->
                  <<<<"T","h","e">>, <<"c","o","m","p","r","e","h","e","n","s","i","v","e">>,
                    <<"a","n","a","l","y","s","i","s">>, <<"r","e","v","e","a","l","e","d">>,
                    <<"s","i","g","n","i","f","i","c","a","n","t">>,
                    <<"d","i","s","c","r","e","p","a","n","c","i","e","s">>, <<"i","n">>,
                    <<"t","h","e">>, <<"d","a","t","a">>>>],
              \* "Environmental sustainability requires unprecedented global cooperation"
              [idealDuration |-> 7, text |->
                  <<<<"E","n","v","i","r","o","n","m","e","n","t","a","l">>,
                    <<"s","u","s","t","a","i","n","a","b","i","l","i","t","y">>,
                    <<"r","e","q","u","i","r","e","s">>,
                    <<"u","n","p","r","e","c","e","d","e","n","t","e","d">>,
                    <<"g","l","o","b","a","l">>, <<"c","o","o","p","e","r","a","t","i","o","n">>>>],
              \* "Despite the challenging circumstances, the team maintained their optimism"
              [idealDuration |-> 8, text |->
                  <<<<"D","e","s","p","i","t","e">>, <<"t","h","e">>,
                    <<"c","h","a","l","l","e","n","g","i","n","g">>,
                    <<"c","i","r","c","u","m","s","t","a","n","c","e","s",",">>, <<"t","h","e">>,
                    <<"t","e","a","m">>, <<"m","a","i","n","t","a","i","n","e","d">>,
                    <<"t","h","e","i","r">>, <<"o","p","t","i","m","i","s","m">>>>],
              \* "The implementation of artificial intelligence has revolutionized various industries"
              [idealDuration |-> 9, text |->
                  <<<<"T","h","e">>, <<"i","m","p","l","e","m","e","n","t","a","t","i","o","n">>,
                    <<"o","f">>, <<"a","r","t","i","f","i","c","i","a","l">>,
                    <<"i","n","t","e","l","l","i","g","e","n","c","e">>, <<"h","a","s">>,
                    <<"r","e","v","o","l","u","t","i","o","n","i","z","e","d">>,
                    <<"v","a","r","i","o","u","s">>, <<"i","n","d","u","s","t","r","i","e","s">>>>],
              \* "Social media platforms have fundamentally altered interpersonal communication"
              [idealDuration |-> 8, text |->
                  <<<<"S","o","c","i","a","l">>, <<"m","e","d","i","a">>,
                    <<"p","l","a","t","f","o","r","m","s">>, <<"h","a","v","e">>,
                    <<"f","u","n","d","a","m","e","n","t","a","l","l","y">>,
                    <<"a","l","t","e","r","e","d">>,
                    <<"i","n","t","e","r","p","e","r","s","o","n","a","l">>,
                    <<"c","o","m","m","u","n","i","c","a","t","i","o","n">>>>]>>]
          [] level = "C1" ->
            [sentences |-> <<
              \* "The paradigmatic shift in contemporary epistemological frameworks necessitates rigorous reassessment"
              [idealDuration |-> 10, text |->
                  <<<<"T","h","e">>, <<"p","a","r","a","d","i","g","m","a","t","i","c">>,
                    <<"s","h","i","f","t">>, <<"i","n">>,
                    <<"c","o","n","t","e","m","p","o","r","a","r","y">>,
                    <<"e","p","i","s","t","e","m","o","l","o","g","i","c","a","l">>,
                    <<"f","r","a","m","e","w","o","r","k","s">>,
                    <<"n","e","c","e","s","s","i","t","a","t","e","s">>,
                    <<"r","i","g","o","r","o","u","s">>,
                    <<"r","e","a","s","s","e","s","s","m","e","n","t">>>>],
              \* "Multifaceted socioeconomic variables contribute to the perpetuation of systemic inequalities"
              [idealDuration |-> 9, text |->
                  <<<<"M","u","l","t","i","f","a","c","e","t","e","d">>,
                    <<"s","o","c","i","o","e","c","o","n","o","m","i","c">>,
                    <<"v","a","r","i","a","b","l","e","s">>,
                    <<"c","o","n","t","r","i","b","u","t","e">>, <<"t","o">>, <<"t","h","e">>,
                    <<"p","e","r","p","e","t","u","a","t","i","o","n">>, <<"o","f">>,
                    <<"s","y","s","t","e","m","i","c">>,
                    <<"i","n","e","q","u","a","l","i","t","i","e","s">>>>],
              \* "The intricate interplay between cognitive biases and decision-making processes merits investigation"
              [idealDuration |-> 10, text |->
                  <<<<"T","h","e">>, <<"i","n","t","r","i","c","a","t","e">>,
                    <<"i","n","t","e","r","p","l","a","y">>, <<"b","e","t","w","e","e","n">>,
                    <<"c","o","g","n","i","t","i","v","e">>, <<"b","i","a","s","e","s">>,
                    <<"a","n","d">>, <<"d","e","c","i","s","i","o","n","-","m","a","k","i","n","g">>,
                    <<"p","r","o","c","e","s","s","e","s">>, <<"m","e","r","i","t","s">>,
                    <<"i","n","v","e","s","t","i","g","a","t","i","o","n">>>>],
              \* "Technological determinism versus social construction represents an ongoing academic discourse"
              [idealDuration |-> 9, text |->
                  <<<<"T","e","c","h","n","o","l","o","g","i","c","a","l">>,
                    <<"d","e","t","e","r","m","i","n","i","s","m">>, <<"v","e","r","s","u","s">>,
                    <<"s","o","c","i","a","l">>, <<"c","o","n","s","t","r","u","c","t","i","o","n">>,
                    <<"r","e","p","r","e","s","e","n","t","s">>, <<"a","n">>,
                    <<"o","n","g","o","i","n","g">>, <<"a","c","a","d","e","m","i","c">>,
                    <<"d","i","s","c","o","u","r","s","e">>>>],
              \* "The phenomenological approach elucidates subjective experiences within objective frameworks"
              [idealDuration |-> 9, text |->
                  <<<<"T","h","e">>,
                    <<"p","h","e","n","o","m","e","n","o","l","o","g","i","c","a","l">>,
                    <<"a","p","p","r","o","a","c","h">>, <<"e","l","u","c","i","d","a","t","e","s">>,
                    <<"s","u","b","j","e","c","t","i","v","e">>,
                    <<"e","x","p","e","r","i","e","n","c","e","s">>, <<"w","i","t","h","i","n">>,
                    <<"o","b","j","e","c","t","i","v","e">>,
                    <<"f","r","a","m","e","w","o","r","k","s">>>>]>>]
          [] level = "C2" ->
            [sentences |-> <<
              \* "The hermeneutical explication of postmodern dialectical tensions necessitates phenomenological deconstruction"
              [idealDuration |-> 11, text |->
                  <<<<"T","h","e">>, <<"h","e","r","m","e","n","e","u","t","i","c","a","l">>,
                    <<"e","x","p","l","i","c","a","t","i","o","n">>, <<"o","f">>,
                    <<"p","o","s","t","m","o","d","e","r","n">>,
                    <<"d","i","a","l","e","c","t","i","c","a","l">>,
                    <<"t","e","n","s","i","o","n","s">>,
                    <<"n","e","c","e","s","s","i","t","a","t","e","s">>,
                    <<"p","h","e","n","o","m","e","n","o","l","o","g","i","c","a","l">>,
                    <<"d","e","c","o","n","s","t","r","u","c","t","i","o","n">>>>],
              \* "Epistemological relativism challenges foundationalist presuppositions through metacognitive reflexivity"
              [idealDuration |-> 10, text |->
                  <<<<"E","p","i","s","t","e","m","o","l","o","g","i","c","a","l">>,
                    <<"r","e","l","a","t","i","v","i","s","m">>,
                    <<"c","h","a","l","l","e","n","g","e","s">>,
                    <<"f","o","u","n","d","a","t","i","o","n","a","l","i","s","t">>,
                    <<"p","r","e","s","u","p","p","o","s","i","t","i","o","n","s">>,
                    <<"t","h","r","o","u","g","h">>,
                    <<"m","e","t","a","c","o","g","n","i","t","i","v","e">>,
                    <<"r","e","f","l","e","x","i","v","i","t","y">>>>],
              \* "The ontological implications of quantum indeterminacy transcend classical mechanistic paradigms"
              [idealDuration |-> 10, text |->
                  <<<<"T","h","e">>, <<"o","n","t","o","l","o","g","i","c","a","l">>,
                    <<"i","m","p","l","i","c","a","t","i","o","n","s">>, <<"o","f">>,
                    <<"q","u","a","n","t","u","m">>,
                    <<"i","n","d","e","t","e","r","m","i","n","a","c","y">>,
                    <<"t","r","a","n","s","c","e","n","d">>, <<"c","l","a","s","s","i","c","a","l">>,
                    <<"m","e","c","h","a","n","i","s","t","i","c">>,
                    <<"p","a","r","a","d","i","g","m","s">>>>],
              \* "Poststructuralist critiques of logocentrism reveal inherent aporias in Western philosophical traditions"
              [idealDuration |-> 11, text |->
                  <<<<"P","o","s","t","s","t","r","u","c","t","u","r","a","l","i","s","t">>,
                    <<"c","r","i","t","i","q","u","e","s">>, <<"o","f">>,
                    <<"l","o","g","o","c","e","n","t","r","i","s","m">>, <<"r","e","v","e","a","l">>,
                    <<"i","n","h","e","r","e","n","t">>, <<"a","p","o","r","i","a","s">>, <<"i","n">>,
                    <<"W","e","s","t","e","r","n">>,
                    <<"p","h","i","l","o","s","o","p","h","i","c","a","l">>,
                    <<"t","r","a","d","i","t","i","o","n","s">>>>],
              \* "The intertextual dynamics of meaning-making processes subvert hegemonic discursive formations"
              [idealDuration |-> 10, text |->
                  <<<<"T","h","e">>, <<"i","n","t","e","r","t","e","x","t","u","a","l">>,
                    <<"d","y","n","a","m","i","c","s">>, <<"o","f">>,
                    <<"m","e","a","n","i","n","g","-","m","a","k","i","n","g">>,
                    <<"p","r","o","c","e","s","s","e","s">>, <<"s","u","b","v","e","r","t">>,
                    <<"h","e","g","e","m","o","n","i","c">>,
                    <<"d","i","s","c","u","r","s","i","v","e">>,
                    <<"f","o","r","m","a","t","i","o","n","s">>>>]>>]]

-----------------------------------------------------------------------------
(* ScoringEngine *)

\* text.toLowerCase().replace(/[^\w\s]/g, '').split(/\s+/).filter(nonempty):
\* a token of punctuation only is emptied by the replace and dropped by the filter
getWords(text) == SelectSeq([i \in 1..Len(text) |-> StripPunct(text[i])], NonEmpty)

calculatePronunciationScore(accuracy) == RMax(RInt(0), RMin(RInt(1), accuracy))

\* calculateFluencyScore without the floor of 0.1 past the staircase
calculateFluencyScore_unfloored(duration, idealDuration) ==
    IF FalsyNum(duration) \/ FalsyNum(idealDuration) THEN RInt(0)
    ELSE LET deviation == RDiv(RAbs(RSub(duration, idealDuration)), idealDuration)
         IN  IF RLe(deviation, Rat(1, 10)) THEN RInt(1)
             ELSE IF RLe(deviation, Rat(2, 10)) THEN Rat(9, 10)
             ELSE IF RLe(deviation, Rat(3, 10)) THEN Rat(8, 10)
             ELSE IF RLe(deviation, Rat(5, 10)) THEN Rat(6, 10)
             ELSE IF RLe(deviation, Rat(7, 10)) THEN Rat(4, 10)
             ELSE RSub(RInt(1), deviation)

calculateFluencyScore(duration, idealDuration) ==
    IF FalsyNum(duration) \/ FalsyNum(idealDuration) THEN RInt(0)
    ELSE LET deviation == RDiv(RAbs(RSub(duration, idealDuration)), idealDuration)
         IN  IF RLe(deviation, Rat(1, 10)) THEN RInt(1)
             ELSE IF RLe(deviation, Rat(2, 10)) THEN Rat(9, 10)
             ELSE IF RLe(deviation, Rat(3, 10)) THEN Rat(8, 10)
             ELSE IF RLe(deviation, Rat(5, 10)) THEN Rat(6, 10)
             ELSE IF RLe(deviation, Rat(7, 10)) THEN Rat(4, 10)
             ELSE RMax(Rat(1, 10), RSub(RInt(1), deviation))

calculateCompletenessScore(transcription, expectedText) ==
    IF FalsyText(transcription) \/ FalsyText(expectedText) THEN Rat(1, 2)
    ELSE LET transcribedWords == getWords(transcription)
             expectedWords == getWords(expectedText)
         IN  IF Len(expectedWords) = 0 THEN Rat(1, 2)
             ELSE RMin(RInt(1), Rat(Len(transcribedWords), Len(expectedWords)))

calculateClarityScore(analysisData) ==
    IF analysisData.isOffline THEN Rat(7, 10)
    ELSE LET accuracy == IF FalsyNum(analysisData.accuracy) THEN RInt(0)
                         ELSE analysisData.accuracy
             hasTranscription == ~FalsyText(analysisData.transcription)
         IN  RAdd(RMul(accuracy, Rat(8, 10)),
                  IF hasTranscription THEN Rat(2, 10) ELSE RInt(0))

RECURSIVE GradeFrom(_, _)
GradeFrom(compositeScore, i) ==
    IF i > Len(GRADE_THRESHOLDS) THEN "A1"
    ELSE IF RLe(RInt(GRADE_THRESHOLDS[i].threshold), compositeScore)
         THEN GRADE_THRESHOLDS[i].grade
         ELSE GradeFrom(compositeScore, i + 1)

mapToGrade(compositeScore) == GradeFrom(compositeScore, 1)

RECURSIVE WeightedSum(_, _)
WeightedSum(scores, i) ==
    IF i = 0 THEN RInt(0)
    ELSE RAdd(WeightedSum(scores, i - 1),
              RMul(scores[ScoreKeys[i]], SCORING_WEIGHTS[ScoreKeys[i]]))

calculateScore(analysisData, duration, idealDuration) ==
    LET scores ==
            [pronunciation |-> calculatePronunciationScore(
                                   IF FalsyNum(analysisData.accuracy) THEN RInt(0)
                                   ELSE analysisData.accuracy),
             fluency |-> calculateFluencyScore(duration, idealDuration),
             completeness |-> calculateCompletenessScore(analysisData.transcription,
                                                         analysisData.expectedText),
             clarity |-> calculateClarityScore(analysisData)]
        compositeScore == RMul(WeightedSum(scores, Len(ScoreKeys)), RInt(100))
    IN  [individual |-> scores,
         composite |-> Round(compositeScore),
         grade |-> mapToGrade(compositeScore)]

-----------------------------------------------------------------------------
(* APIClient *)

retryAttempts == 3

\* a JavaScript value with its type, as === compares it
JsString(str) == [type |-> "string", value |-> str]
JsBoolean(b) == [type |-> "boolean", value |-> IF b THEN "true" ELSE "false"]
\* !str: true exactly for the empty string
JsNot(str) == JsBoolean(str = "")
\* a === b: no conversion, values of different types are never equal
StrictEquals(a, b) == a.type = b.type /\ a.value = b.value

\* what one fetch of /transcribe can come to
ResponseKinds == {"json", "httpError", "networkError", "timeout"}

\* error.name of the error the try block throws
ErrorName(kind) ==
    CASE kind = "timeout" -> "AbortError"      \* controller.abort() rejects the fetch
      [] kind = "networkError" -> "TypeError"  \* fetch rejects
      [] OTHER -> "Error"                      \* new Error(...) for !response.ok, invalid format

validateResponse(data) ==
    /\ data.accuracy # NoNum
    /\ RLe(RInt(0), data.accuracy)
    /\ RLe(data.accuracy, RInt(1))

\* the try block of one attempt: "" when data is returned, else the failure
AttemptFailure(response) ==
    IF response.kind = "json"
    THEN IF validateResponse(response.data) THEN "" ELSE "invalidFormat"
    ELSE response.kind

\* the guard of the retry in the catch block
ShouldRetry(retryCount, errorName) ==
    /\ retryCount < retryAttempts
    /\ StrictEquals(JsNot(errorName), JsString("AbortError"))

\* transcribeAudio(audioBase64, expectedText, retryCount) against a network that
\* answers request k with responses[k]: how the call settles, the number of
\* requests sent and the delays waited, in milliseconds
RECURSIVE transcribeAudio(_, _)
transcribeAudio(responses, retryCount) ==
    LET response == responses[retryCount + 1]
        failure == AttemptFailure(response)
    IN  IF failure = ""
        THEN [status |-> "returned", data |-> response.data, failure |-> "",
              requests |-> retryCount + 1, delays |-> <<>>]
        ELSE IF ShouldRetry(retryCount, ErrorName(failure))
        THEN LET later == transcribeAudio(responses, retryCount + 1)
             IN  [later EXCEPT !.delays = <<(2 ^ retryCount) * 1000>> \o @]
        ELSE [status |-> "thrown", data |-> response.data, failure |-> failure,
              requests |-> retryCount + 1, delays |-> <<>>]

-----------------------------------------------------------------------------
(* PhoneticAnalysisEngine *)
(* A phoneme is the sequence of its symbols.  The IPA symbols of the source *)
(* are written in X-SAMPA: { for ae, A for open back a, V for turned v, I   *)
(* for small capital i, E for open e, Q for turned script a, O for open o,  *)
(* U for upsilon, @ for schwa, 3 for reversed open e, T for theta, D for    *)
(* eth, S for esh, Z for ezh, N for eng; the other symbols are themselves.  *)

\* word.toLowerCase()
WordToLowerCase(word) ==
    LET lower == <<"a","b","c","d","e","f","g","h","i","j","k","l","m",
                   "n","o","p","q","r","s","t","u","v","w","x","y","z">>
        upper == <<"A","B","C","D","E","F","G","H","I","J","K","L","M",
                   "N","O","P","Q","R","S","T","U","V","W","X","Y","Z">>
        CharToLowerCase(c) ==
            IF \E i \in 1..26 : upper[i] = c
            THEN lower[CHOOSE i \in 1..26 : upper[i] = c]
            ELSE c
    IN [i \in 1..Len(word) |-> CharToLowerCase(word[i])]

\* text.toLowerCase()
toLowerCase(text) == [i \in 1..Len(text) |-> WordToLowerCase(text[i])]

\* text.split(/\s+/): the tokens; the empty string splits into one empty word
split(text) == IF text = <<>> THEN << <<>> >> ELSE text

\* text.includes(c)
includes(text, c) == \E i \in 1..Len(text) : \E j \in 1..Len(text[i]) : text[i][j] = c

\* word.replace(/[.,!?;:]/, ''): the pattern has no g flag, the first match goes
ReplaceFirst(word) ==
    LET ReplacedChars == {".", ",", "!", "?", ";", ":"} IN
    IF \E j \in 1..Len(word) : word[j] \in ReplacedChars
    THEN LET j == CHOOSE k \in 1..Len(word) :
                      /\ word[k] \in ReplacedChars
                      /\ \A m \in 1..(k - 1) : word[m] \notin ReplacedChars
         IN SubSeq(word, 1, j - 1) \o SubSeq(word, j + 1, Len(word))
    ELSE word

RECURSIVE Flatten(_)
Flatten(seqs) == IF seqs = <<>> THEN <<>> ELSE Head(seqs) \o Flatten(Tail(seqs))

RECURSIVE SumLen(_)
SumLen(seqs) == IF seqs = <<>> THEN 0 ELSE Len(Head(seqs)) + SumLen(Tail(seqs))

RECURSIVE RSum(_)
RSum(xs) == IF xs = <<>> THEN RInt(0) ELSE RAdd(Head(xs), RSum(Tail(xs)))

\* Math.floor of a rational that is not negative
Floor(x) == x[1] \div x[2]

\* the rest of a stream of Math.random() draws after n of them are used
Drop(stream, n) == SubSeq(stream, n + 1, Len(stream))

phonemeMap ==
    [vowels |->
        [c \in {"a", "e", "i", "o", "u", "y"} |->
            CASE c = "a" -> << <<"{">>, <<"A", ":">>, <<"V">>, <<"e", "I">> >>
              [] c = "e" -> << <<"e">>, <<"E">>, <<"i", ":">>, <<"I">> >>
              [] c = "i" -> << <<"I">>, <<"i", ":">>, <<"a", "I">> >>
              [] c = "o" -> << <<"Q">>, <<"O", ":">>, <<"@", "U">>, <<"U">> >>
              [] c = "u" -> << <<"V">>, <<"u", ":">>, <<"U">>, <<"j", "u", ":">> >>
              [] c = "y" -> << <<"I">>, <<"a", "I">>, <<"j">> >>],
     consonants |->
        [c \in {"b", "p", "d", "t", "g", "k", "f", "v", "s", "z", "T", "D",
                "S", "Z", "h", "l", "r", "j", "w", "m", "n", "N"} |-> << <<c>> >>]]

\* a pattern of levelSpecificErrors: the alternatives of the regular expression
levelSpecificErrors ==
    [level \in {"A1", "A2", "B1", "B2", "C1", "C2"} |->
        CASE level = "A1" -> << {<<"t", "h">>}, {<<"r">>}, {<<"{">>} >>
          [] level = "A2" -> << {<<"I">>, <<"i", ":">>}, {<<"w">>, <<"v">>}, {<<"N">>} >>
          [] level = "B1" -> << {<<"@", "U">>, <<"a", "U">>}, {<<"S">>, <<"t", "S">>},
                                {<<"s", "t", "r", "e", "s", "s">>} >>
          [] level = "B2" -> << {<<"3", ":">>, <<"@">>}, {<<"l">>, <<"r">>},
                                {<<"i", "n", "t", "o", "n", "a", "t", "i", "o", "n">>} >>
          [] level = "C1" -> << {<<"l", "i", "n", "k", "i", "n", "g">>},
                                {<<"w", "e", "a", "k", " ", "f", "o", "r", "m", "s">>},
                                {<<"r", "e", "g", "i", "s", "t", "e", "r">>} >>
          [] level = "C2" -> << {<<"s", "u", "b", "t", "l", "e", " ", "d", "i", "s", "t",
                                   "i", "n", "c", "t", "i", "o", "n", "s">>},
                                {<<"d", "i", "s", "c", "o", "u", "r", "s", "e", " ", "m",
                                   "a", "r", "k", "e", "r", "s">>},
                                {<<"r", "e", "g", "i", "s", "t", "e", "r", " ", "v", "a",
                                   "r", "i", "a", "t", "i", "o", "n">>} >>]

\* pattern.test(phoneme): some alternative occurs in the phoneme
test(pattern, phoneme) ==
    \E alt \in pattern : \E i \in 1..Len(phoneme) :
        /\ i + Len(alt) - 1 <= Len(phoneme)
        /\ SubSeq(phoneme, i, i + Len(alt) - 1) = alt

wordToPhonemes(word) ==
    LET HasPhoneme(c) == c \in DOMAIN phonemeMap.vowels \/ c \in DOMAIN phonemeMap.consonants
        chars == SelectSeq(WordToLowerCase(word), HasPhoneme)
    IN [i \in 1..Len(chars) |->
            IF chars[i] \in DOMAIN phonemeMap.vowels
            THEN phonemeMap.vowels[chars[i]][1]
            ELSE phonemeMap.consonants[chars[i]][1]]

vowelPatterns ==
    {<<"{">>, <<"A", ":">>, <<"V">>, <<"e", "I">>, <<"e">>, <<"E">>, <<"i", ":">>, <<"I">>,
     <<"a", "I">>, <<"Q">>, <<"O", ":">>, <<"@", "U">>, <<"U">>, <<"u", ":">>,
     <<"j", "u", ":">>, <<"@">>}

isVowel(phoneme) == phoneme \in vowelPatterns

predictWordStress(word) ==
    IF Len(word) <= 2 THEN <<1>>
    ELSE IF Len(word) <= 4 THEN <<1, 0>>
    ELSE <<1, 0, 0>>

\* the matches of /[aeiouy]+/g in one word: the maximal runs of vowel letters
VowelRuns(word) ==
    LET IsV(c) == c \in {"a", "e", "i", "o", "u", "y"}
    IN Cardinality({i \in 1..Len(word) : IsV(word[i]) /\ (i = 1 \/ ~IsV(word[i - 1]))})

countSyllables(text) ==
    LET RECURSIVE Runs(_)
        Runs(t) == IF t = <<>> THEN 0 ELSE VowelRuns(Head(t)) + Runs(Tail(t))
        matches == Runs(toLowerCase(text))
    IN IF matches = 0 THEN 1 ELSE matches

calculateOverallScore(segmental, suprasegmental) ==
    RAdd(RMul(segmental.overall, Rat(7, 10)), RMul(suprasegmental.overall, Rat(3, 10)))

extractWordFeatures(features, stream) ==
    [energy |-> RMul(features.energy.rms, RAdd(Rat(8, 10), RMul(stream[1], Rat(4, 10)))),
     pitch |-> RMul(features.fundamental.mean, RAdd(Rat(9, 10), RMul(stream[2], Rat(2, 10)))),
     formants |-> features.formants]

\* the substitutions table of simulateProducedPhoneme
substitutions ==
    [target \in {<<"T">>, <<"D">>, <<"I">>, <<"i", ":">>, <<"{">>} |->
        CASE target = <<"T">> -> << <<"s">>, <<"f">>, <<"t">> >>
          [] target = <<"D">> -> << <<"d">>, <<"z">>, <<"v">> >>
          [] target = <<"I">> -> << <<"i", ":">>, <<"e">> >>
          [] target = <<"i", ":">> -> << <<"I">>, <<"e", "I">> >>
          [] target = <<"{">> -> << <<"e">>, <<"V">> >>]

\* the draws simulateProducedPhoneme takes from the stream
simulateProducedPhonemeDraws(target, accuracy, stream) ==
    IF RLt(Rat(9, 10), accuracy) \/ target \notin DOMAIN substitutions THEN 0
    ELSE IF RLt(accuracy, stream[1]) THEN 2 ELSE 1

simulateProducedPhoneme(target, accuracy, stream) ==
    IF RLt(Rat(9, 10), accuracy) THEN target
    ELSE IF target \in DOMAIN substitutions /\ RLt(accuracy, stream[1])
    THEN LET subs == substitutions[target]
         IN subs[Floor(RMul(stream[2], RInt(Len(subs)))) + 1]
    ELSE target

\* simulateStressDetection with the variation 0.4 to 0.8 instead of 0.8 to 1.2
simulateStressDetection_weak(word, stream) ==
    LET expected == predictWordStress(word)
    IN [i \in 1..Len(expected) |->
            RMul(RInt(expected[i]), RAdd(Rat(4, 10), RMul(stream[i], Rat(4, 10))))]

simulateStressDetection(word, stream) ==
    LET expected == predictWordStress(word)
    IN [i \in 1..Len(expected) |->
            RMul(RInt(expected[i]), RAdd(Rat(8, 10), RMul(stream[i], Rat(4, 10))))]

simulateContourDetection(isQuestion, random) ==
    IF isQuestion
    THEN (IF RLt(Rat(2, 10), random) THEN "rising" ELSE "falling")
    ELSE (IF RLt(Rat(3, 10), random) THEN "falling" ELSE "rising")

calculateAverageAccuracy(analyses) ==
    IF Len(analyses) = 0 THEN RInt(0)
    ELSE RDiv(RSum([i \in 1..Len(analyses) |-> analyses[i].accuracy]), RInt(Len(analyses)))

\* a message that starts with a count is the pair of the count and its text
identifyVowelIssues(vowelAnalyses) ==
    LET IsLowAccuracy(v) == RLt(v.accuracy, Rat(7, 10))
        lowAccuracy == SelectSeq(vowelAnalyses, IsLowAccuracy)
    IN IF Len(lowAccuracy) > 0
       THEN << <<Len(lowAccuracy), "vowel sounds need improvement">> >> ELSE <<>>

identifyConsonantIssues(consonantAnalyses) ==
    LET IsLowAccuracy(c) == RLt(c.accuracy, Rat(7, 10))
        lowAccuracy == SelectSeq(consonantAnalyses, IsLowAccuracy)
    IN IF Len(lowAccuracy) > 0
       THEN << <<Len(lowAccuracy), "consonant sounds need work">> >> ELSE <<>>

identifyPhonemeIssues(phoneme, accuracy) ==
    (IF RLt(accuracy, Rat(6, 10)) THEN <<"Poor articulation">> ELSE <<>>)
    \o (IF RLt(accuracy, Rat(8, 10)) /\ isVowel(phoneme)
        THEN <<"Vowel quality needs improvement">> ELSE <<>>)

identifyStressIssues(patterns) ==
    LET IsIncorrect(p) == ~p.correct
        incorrectCount == Len(SelectSeq(patterns, IsIncorrect))
    IN IF incorrectCount > 0
       THEN << <<incorrectCount, "words have incorrect stress patterns">> >> ELSE <<>>

identifyRhythmIssues(timingAccuracy, flowScore) ==
    (IF RLt(timingAccuracy, Rat(7, 10)) THEN <<"Speech tempo needs adjustment">> ELSE <<>>)
    \o (IF RLt(flowScore, Rat(7, 10))
        THEN <<"Work on speech flow and smoothness">> ELSE <<>>)

identifyIntonationIssues(contourAccuracy, expressiveness) ==
    (IF RLt(contourAccuracy, Rat(7, 10))
     THEN <<"Practice question and statement intonation patterns">> ELSE <<>>)
    \o (IF RLt(expressiveness, Rat(7, 10))
        THEN <<"Add more variation and expression to speech">> ELSE <<>>)

generatePhonemeNeedback(phoneme, accuracy) ==
    IF RLt(Rat(9, 10), accuracy) THEN "Excellent pronunciation"
    ELSE IF RLt(Rat(7, 10), accuracy) THEN "Good, with minor improvements needed"
    ELSE IF RLt(Rat(5, 10), accuracy) THEN "Needs practice - focus on tongue/lip position"
    ELSE "Requires significant work - consider intensive practice"

compareStressPatterns(expected, detected) ==
    /\ Len(expected) = Len(detected)
    /\ \A i \in 1..Len(expected) :
          (expected[i] > 0) <=> RLt(Rat(1, 2), detected[i])

vowelTargets ==
    [phoneme \in {<<"{">>, <<"A", ":">>, <<"V">>, <<"i", ":">>, <<"I">>, <<"u", ":">>, <<"U">>} |->
        CASE phoneme = <<"{">> -> [F1 |-> 700, F2 |-> 1700]
          [] phoneme = <<"A", ":">> -> [F1 |-> 750, F2 |-> 1100]
          [] phoneme = <<"V">> -> [F1 |-> 650, F2 |-> 1400]
          [] phoneme = <<"i", ":">> -> [F1 |-> 300, F2 |-> 2300]
          [] phoneme = <<"I">> -> [F1 |-> 400, F2 |-> 2000]
          [] phoneme = <<"u", ":">> -> [F1 |-> 300, F2 |-> 900]
          [] phoneme = <<"U">> -> [F1 |-> 400, F2 |-> 1100]]

analyzeVowelFormants(phoneme, formants) ==
    IF phoneme \notin DOMAIN vowelTargets \/ FalsyNum(formants.F1) \/ FalsyNum(formants.F2)
    THEN Rat(1, 2)
    ELSE LET target == vowelTargets[phoneme]
             f1Error == RDiv(RAbs(RSub(formants.F1, RInt(target.F1))), RInt(target.F1))
             f2Error == RDiv(RAbs(RSub(formants.F2, RInt(target.F2))), RInt(target.F2))
             avgError == RDiv(RAdd(f1Error, f2Error), RInt(2))
         IN RMax(RInt(0), RSub(RInt(1), avgError))

\* features.spectral is read with a guard: the features of a segment have none
HasSpectral(features) == "spectral" \in DOMAIN features

analyzeConsonantFeatures(phoneme, features) ==
    LET fricative ==
            IF /\ phoneme \in {<<"s">>, <<"z">>, <<"S">>, <<"Z">>, <<"f">>, <<"v">>, <<"T">>, <<"D">>}
               /\ HasSpectral(features)
               /\ features.spectral.centroid # NoNum
               /\ RLt(RInt(2000), features.spectral.centroid)
            THEN Rat(3, 10) ELSE RInt(0)
        stop ==
            IF /\ phoneme \in {<<"p">>, <<"b">>, <<"t">>, <<"d">>, <<"k">>, <<"g">>}
               /\ RLt(Rat(2, 10), features.energy)
            THEN Rat(3, 10) ELSE RInt(0)
    IN RMin(RInt(1), RAdd(RAdd(Rat(1, 2), fricative), stop))

\* the accuracy of analyzePhoneme before and after the clamp
PhonemeRawAccuracy(phoneme, features, level) ==
    LET energy ==
            IF RLt(features.energy, Rat(1, 10)) THEN Rat(-3, 10)
            ELSE IF RLt(Rat(2, 10), features.energy) THEN Rat(2, 10)
            ELSE RInt(0)
        clarity ==
            IF HasSpectral(features) /\ ~FalsyNum(features.spectral.clarity)
            THEN RMul(features.spectral.clarity, Rat(3, 10)) ELSE RInt(0)
        formant ==
            IF isVowel(phoneme)
            THEN RMul(analyzeVowelFormants(phoneme, features.formants), Rat(4, 10))
            ELSE RInt(0)
        consonant ==
            IF ~isVowel(phoneme)
            THEN RMul(analyzeConsonantFeatures(phoneme, features), Rat(4, 10))
            ELSE RInt(0)
        levelErrors ==
            IF level \in DOMAIN levelSpecificErrors THEN levelSpecificErrors[level] ELSE <<>>
        penalties == Cardinality({k \in 1..Len(levelErrors) : test(levelErrors[k], phoneme)})
    IN RSub(RAdd(RAdd(RAdd(RAdd(Rat(1, 2), energy), clarity), formant), consonant),
            RMul(RInt(penalties), Rat(1, 10)))

\* the clamp of analyzePhoneme without its lower end
PhonemeAccuracy_capOnly(phoneme, features, level) ==
    RMin(RInt(1), PhonemeRawAccuracy(phoneme, features, level))

PhonemeAccuracy(phoneme, features, level) ==
    RMax(RInt(0), RMin(RInt(1), PhonemeRawAccuracy(phoneme, features, level)))

analyzePhoneme(phoneme, features, level, stream) ==
    LET finalAccuracy == PhonemeAccuracy(phoneme, features, level)
    IN [phoneme |-> phoneme,
        accuracy |-> finalAccuracy,
        target |-> phoneme,
        produced |-> simulateProducedPhoneme(phoneme, finalAccuracy, stream),
        issues |-> identifyPhonemeIssues(phoneme, finalAccuracy),
        feedback |-> generatePhonemeNeedback(phoneme, finalAccuracy)]

analyzePhonemeDraws(phoneme, features, level, stream) ==
    simulateProducedPhonemeDraws(phoneme, PhonemeAccuracy(phoneme, features, level), stream)

\* segmentPhonetically(features, text); word i takes two draws of the stream
segmentPhonetically(features, text, stream) ==
    LET words == split(toLowerCase(text))
    IN [i \in 1..Len(words) |->
            LET word == ReplaceFirst(words[i])
            IN [word |-> word,
                phonemes |-> wordToPhonemes(word),
                startTime |-> RMul(Rat(i - 1, Len(words)), features.temporal.duration),
                endTime |-> RMul(Rat(i, Len(words)), features.temporal.duration),
                stress |-> predictWordStress(word),
                features |-> extractWordFeatures(features, Drop(stream, 2 * (i - 1)))]]

segmentPhoneticallyDraws(text) == 2 * Len(split(text))

\* the phonemes of the segments in the order of the two loops, each with the
\* features of its segment
SegmentItems(segments) ==
    Flatten([i \in 1..Len(segments) |->
                [j \in 1..Len(segments[i].phonemes) |->
                    [phoneme |-> segments[i].phonemes[j], features |-> segments[i].features]]])

RECURSIVE AnalyzeItems(_, _, _)
AnalyzeItems(items, level, stream) ==
    IF items = <<>> THEN <<>>
    ELSE LET item == Head(items)
             used == analyzePhonemeDraws(item.phoneme, item.features, level, stream)
         IN <<analyzePhoneme(item.phoneme, item.features, level, stream)>>
            \o AnalyzeItems(Tail(items), level, Drop(stream, used))

analyzeSegmentals(segments, level, stream) ==
    LET IsVowelAnalysis(analysis) == isVowel(analysis.phoneme)
        IsConsonantAnalysis(analysis) == ~isVowel(analysis.phoneme)
        analyses == AnalyzeItems(SegmentItems(segments), level, stream)
        vowelAnalysis == SelectSeq(analyses, IsVowelAnalysis)
        consonantAnalysis == SelectSeq(analyses, IsConsonantAnalysis)
        totalPhonemes == Len(vowelAnalysis) + Len(consonantAnalysis)
        overallAccuracy ==
            IF totalPhonemes > 0
            THEN RDiv(RSum([i \in 1..Len(analyses) |-> analyses[i].accuracy]),
                      RInt(totalPhonemes))
            ELSE RInt(0)
    IN [vowels |-> [count |-> Len(vowelAnalysis),
                    accuracy |-> calculateAverageAccuracy(vowelAnalysis),
                    issues |-> identifyVowelIssues(vowelAnalysis),
                    details |-> vowelAnalysis],
        consonants |-> [count |-> Len(consonantAnalysis),
                        accuracy |-> calculateAverageAccuracy(consonantAnalysis),
                        issues |-> identifyConsonantIssues(consonantAnalysis),
                        details |-> consonantAnalysis],
        overall |-> RMul(overallAccuracy, RInt(100))]

\* at most two draws for each phoneme that has substitutions
analyzeSegmentalsDraws(segments) ==
    LET items == SegmentItems(segments)
    IN 2 * Cardinality({i \in 1..Len(items) : items[i].phoneme \in DOMAIN substitutions})

RECURSIVE StressPatterns(_, _)
StressPatterns(words, stream) ==
    IF words = <<>> THEN <<>>
    ELSE LET word == Head(words)
             expectedStress == predictWordStress(word)
             detectedStress == simulateStressDetection(word, stream)
         IN << [word |-> word,
                expected |-> expectedStress,
                detected |-> detectedStress,
                correct |-> compareStressPatterns(expectedStress, detectedStress)] >>
            \o StressPatterns(Tail(words), Drop(stream, Len(expectedStress)))

analyzeStress(text, stream) ==
    LET IsCorrect(p) == p.correct
        words == split(text)
        stressPatterns == StressPatterns(words, stream)
        correctStressCount == Len(SelectSeq(stressPatterns, IsCorrect))
    IN [accuracy |-> IF Len(words) > 0 THEN Rat(correctStressCount, Len(words)) ELSE RInt(0),
        patterns |-> stressPatterns,
        issues |-> identifyStressIssues(stressPatterns)]

analyzeStressDraws(text) ==
    LET words == split(text)
    IN SumLen([i \in 1..Len(words) |-> predictWordStress(words[i])])

\* expectedDuration / 0 is Infinity, and Math.min(1.0, Infinity) is 1
analyzeRhythm(features, text, random) ==
    LET syllableCount == countSyllables(text)
        expectedDuration == RMul(RInt(syllableCount), Rat(2, 10))
        actualDuration == features.temporal.duration
        timingAccuracy ==
            IF actualDuration[1] = 0 THEN RInt(1)
            ELSE RMin(RInt(1), RDiv(expectedDuration, actualDuration))
        flowScore == RAdd(Rat(8, 10), RMul(random, Rat(2, 10)))
    IN [accuracy |-> RDiv(RAdd(timingAccuracy, flowScore), RInt(2)),
        timing |-> [expected |-> expectedDuration,
                    actual |-> actualDuration,
                    ratio |-> timingAccuracy],
        flow |-> flowScore,
        issues |-> identifyRhythmIssues(timingAccuracy, flowScore)]

analyzeIntonation(features, text, stream) ==
    LET isQuestion == includes(text, "?")
        expectedContour == IF isQuestion THEN "rising" ELSE "falling"
        detectedContour == simulateContourDetection(isQuestion, stream[1])
        contourAccuracy == IF expectedContour = detectedContour THEN Rat(9, 10) ELSE Rat(6, 10)
        expressiveness == RAdd(Rat(7, 10), RMul(stream[2], Rat(3, 10)))
    IN [accuracy |-> RDiv(RAdd(contourAccuracy, expressiveness), RInt(2)),
        contour |-> [expected |-> expectedContour,
                     detected |-> detectedContour,
                     match |-> expectedContour = detectedContour],
        expressiveness |-> expressiveness,
        issues |-> identifyIntonationIssues(contourAccuracy, expressiveness)]

\* the draws go to analyzeStress, then analyzeRhythm, then analyzeIntonation
analyzeSuprasegmentals(features, text, level, stream) ==
    LET stressDraws == analyzeStressDraws(text)
        stressAnalysis == analyzeStress(text, stream)
        rhythmAnalysis == analyzeRhythm(features, text, stream[stressDraws + 1])
        intonationAnalysis == analyzeIntonation(features, text, Drop(stream, stressDraws + 1))
    IN [stress |-> [accuracy |-> stressAnalysis.accuracy,
                    patterns |-> stressAnalysis.patterns,
                    issues |-> stressAnalysis.issues],
        rhythm |-> [accuracy |-> rhythmAnalysis.accuracy,
                    timing |-> rhythmAnalysis.timing,
                    flow |-> rhythmAnalysis.flow,
                    issues |-> rhythmAnalysis.issues],
        intonation |-> [accuracy |-> intonationAnalysis.accuracy,
                        contour |-> intonationAnalysis.contour,
                        expressiveness |-> intonationAnalysis.expressiveness,
                        issues |-> intonationAnalysis.issues],
        overall |-> RMul(RDiv(RAdd(RAdd(stressAnalysis.accuracy, rhythmAnalysis.accuracy),
                                   intonationAnalysis.accuracy), RInt(3)), RInt(100))]

analyzeSuprasegmentalsDraws(text) == analyzeStressDraws(text) + 3

getLevelSpecificFeedback(level) ==
    CASE level \in {"A1", "A2"} ->
            <<"Focus on clear articulation of individual sounds",
              "Practice common consonant and vowel sounds">>
      [] level \in {"B1", "B2"} ->
            <<"Work on word stress patterns and connected speech",
              "Practice intonation in questions and statements">>
      [] level \in {"C1", "C2"} ->
            <<"Focus on subtle pronunciation features and natural rhythm",
              "Work on register-appropriate pronunciation variations">>
      [] OTHER -> <<>>

generateDetailedFeedback(segmental, suprasegmental, level) ==
    LET lowVowels == RLt(segmental.vowels.accuracy, Rat(7, 10))
        lowConsonants == RLt(segmental.consonants.accuracy, Rat(7, 10))
        lowRhythm == RLt(suprasegmental.rhythm.accuracy, Rat(7, 10))
    IN [strengths |->
            (IF RLt(Rat(8, 10), segmental.vowels.accuracy)
             THEN <<"Excellent vowel pronunciation">> ELSE <<>>)
            \o (IF RLt(Rat(8, 10), segmental.consonants.accuracy)
                THEN <<"Strong consonant articulation">> ELSE <<>>)
            \o (IF RLt(Rat(8, 10), suprasegmental.stress.accuracy)
                THEN <<"Good word stress patterns">> ELSE <<>>),
        improvements |->
            (IF lowVowels THEN <<"Focus on vowel clarity and length">> ELSE <<>>)
            \o (IF lowConsonants THEN <<"Work on consonant precision">> ELSE <<>>)
            \o (IF lowRhythm THEN <<"Improve speech rhythm and timing">> ELSE <<>>),
        specificTips |->
            (IF lowVowels
             THEN <<"Practice vowel sounds in isolation before combining in words">>
             ELSE <<>>)
            \o (IF lowConsonants
                THEN <<"Pay attention to tongue and lip positions for each consonant">>
                ELSE <<>>)
            \o (IF lowRhythm
                THEN <<"Practice with a metronome or rhythm exercises">> ELSE <<>>),
        levelAppropriate |-> getLevelSpecificFeedback(level)]

getFallbackFeatures ==
    [fundamental |-> [mean |-> RInt(0), range |-> RInt(0)],
     formants |-> [F1 |-> RInt(0), F2 |-> RInt(0), F3 |-> RInt(0)],
     spectral |-> [centroid |-> RInt(0), bandwidth |-> RInt(0), rolloff |-> RInt(0),
                   clarity |-> RInt(0)],
     temporal |-> [duration |-> RInt(1), silences |-> RInt(0), voicedRatio |-> RInt(0)],
     energy |-> [rms |-> Rat(1, 100), peak |-> Rat(1, 100)]]

\* the timestamp of a result is the clock and is left out
getFallbackAnalysis(text, level) ==
    [overall |-> RInt(75),
     segmental |->
        [vowels |-> [count |-> 5, accuracy |-> Rat(75, 100), issues |-> <<>>, details |-> <<>>],
         consonants |-> [count |-> 8, accuracy |-> Rat(76, 100), issues |-> <<>>,
                         details |-> <<>>],
         overall |-> Rat(755, 10)],
     suprasegmental |->
        [stress |-> [accuracy |-> Rat(7, 10), patterns |-> <<>>, issues |-> <<>>],
         rhythm |-> [accuracy |-> Rat(75, 100), timing |-> <<>>, flow |-> Rat(75, 100),
                     issues |-> <<>>],
         intonation |-> [accuracy |-> Rat(73, 100), contour |-> <<>>,
                         expressiveness |-> Rat(73, 100), issues |-> <<>>],
         overall |-> Rat(727, 10)],
     feedback |->
        [strengths |-> <<"Basic pronunciation is understandable">>,
         improvements |-> <<"Continue practicing for more detailed feedback">>,
         specificTips |-> <<"Record in a quiet environment for better analysis">>,
         levelAppropriate |-> <<"Keep practicing at your current level">>],
     level |-> level,
     text |-> text,
     isBasicAnalysis |-> TRUE]

\* what decodeAudioData makes of a recording that cannot be decoded
DecodeError == "DecodeError"

\* extractAcousticFeatures(audioData): the features measured on the decoded
\* samples, or the fallback features when any step of the extraction throws
extractAcousticFeatures(audioData) ==
    IF audioData.decoded = DecodeError THEN getFallbackFeatures ELSE audioData.features

\* the return value of the try block of analyzePhonetics
AnalysisResult(segmentalAnalysis, suprasegmentalAnalysis, text, level) ==
    [overall |-> calculateOverallScore(segmentalAnalysis, suprasegmentalAnalysis),
     segmental |-> segmentalAnalysis,
     suprasegmental |-> suprasegmentalAnalysis,
     feedback |-> generateDetailedFeedback(segmentalAnalysis, suprasegmentalAnalysis, level),
     level |-> level,
     text |-> text,
     isBasicAnalysis |-> FALSE]

-----------------------------------------------------------------------------
(* StorageManager *)

maxResults == 50

\* saveTestResult with the new entry pushed instead of unshifted
saveTestResult_pushed(results, result, id) ==
    LET testResult == [id |-> id, level |-> result.level, sentence |-> result.sentence,
                       scores |-> result.scores, grade |-> result.grade,
                       duration |-> result.duration, idealDuration |-> result.idealDuration,
                       isOffline |-> result.isOffline]
        unshifted == results \o <<testResult>>
    IN IF Len(unshifted) > maxResults THEN SubSeq(unshifted, 1, maxResults) ELSE unshifted

\* saveTestResult(result): the stored history after the save, newest first;
\* id is the identifier generateId() gives the stored entry
saveTestResult(results, result, id) ==
    LET testResult == [id |-> id, level |-> result.level, sentence |-> result.sentence,
                       scores |-> result.scores, grade |-> result.grade,
                       duration |-> result.duration, idealDuration |-> result.idealDuration,
                       isOffline |-> result.isOffline]
        unshifted == <<testResult>> \o results
    IN IF Len(unshifted) > maxResults THEN SubSeq(unshifted, 1, maxResults) ELSE unshifted

\* importData(jsonData): the stored history after the call; data is what
\* JSON.parse gives, and everything but an object with an array testHistory
\* leaves the storage as it was
importData(results, data) ==
    IF "testHistory" \in DOMAIN data THEN data.testHistory ELSE results

\* clearHistory(): the history getTestHistory() reads after removeItem
clearHistory == <<>>

-----------------------------------------------------------------------------
(* AdaptiveTestingEngine.  An assessment is modelled by its position, its    *)
(* per-level records and its completion; id, startTime and the history of    *)
(* the assessment are left out.                                              *)

levels == <<"A1", "A2", "B1", "B2", "C1", "C2">>

thresholds ==
    [advancement |-> 75, mastery |-> 85, struggle |-> 60, minAttempts |-> 3, maxAttempts |-> 5]

\* the new assessment of initializeAssessment: levelAttempts {} and levelScores {}
FreshAssessment ==
    [currentLevel |-> "A1", currentSentenceIndex |-> 0,
     levelAttempts |-> [l \in {} |-> 0], levelScores |-> [l \in {} |-> <<>>],
     placementComplete |-> FALSE, assignedLevel |-> "null"]

\* the assessment startPlacementTest creates
startPlacementTest ==
    [currentLevel |-> "A1", currentSentenceIndex |-> 0,
     levelAttempts |-> [l \in {levels[i] : i \in 1..Len(levels)} |-> 0],
     levelScores |-> [l \in {levels[i] : i \in 1..Len(levels)} |-> <<>>],
     placementComplete |-> FALSE, assignedLevel |-> "null"]

calculateAverage(scores) ==
    IF Len(scores) = 0 THEN RInt(0)
    ELSE LET RECURSIVE Sum(_)
             Sum(s) == IF s = <<>> THEN 0 ELSE Head(s) + Sum(Tail(s))
         IN Rat(Sum(scores), Len(scores))

\* null for the highest level
getNextLevel(currentLevel) ==
    LET currentIndex == CHOOSE i \in 1..Len(levels) : levels[i] = currentLevel
    IN IF currentIndex < Len(levels) THEN levels[currentIndex + 1] ELSE "null"

\* shouldAdvanceLevel without the minimum of attempts
shouldAdvanceLevel_noMinimum(averageScore, recentAverage, attempts) ==
    IF RLe(RInt(thresholds.mastery), recentAverage)
       /\ RLe(RInt(thresholds.advancement), averageScore) THEN TRUE
    ELSE IF attempts >= thresholds.maxAttempts
            /\ RLe(RInt(thresholds.advancement), averageScore) THEN TRUE
    ELSE FALSE

shouldAdvanceLevel(averageScore, recentAverage, attempts) ==
    IF attempts < thresholds.minAttempts THEN FALSE
    ELSE IF RLe(RInt(thresholds.mastery), recentAverage)
            /\ RLe(RInt(thresholds.advancement), averageScore) THEN TRUE
    ELSE IF attempts >= thresholds.maxAttempts
            /\ RLe(RInt(thresholds.advancement), averageScore) THEN TRUE
    ELSE FALSE

\* shouldCompleteAtLevel without the maximum of attempts
shouldCompleteAtLevel_noMaximum(averageScore, attempts) ==
    /\ attempts >= thresholds.minAttempts
    /\ RLe(RInt(thresholds.struggle), averageScore)
    /\ RLt(averageScore, RInt(thresholds.advancement))

shouldCompleteAtLevel(averageScore, attempts) ==
    /\ attempts >= thresholds.minAttempts
    /\ \/ RLe(RInt(thresholds.struggle), averageScore)
          /\ RLt(averageScore, RInt(thresholds.advancement))
       \/ attempts >= thresholds.maxAttempts

\* the action, nextLevel and assignedLevel of the decision; its texts are left out
makeProgressionDecision(assessment, currentLevel) ==
    LET scores == assessment.levelScores[currentLevel]
        attempts == assessment.levelAttempts[currentLevel]
        averageScore == calculateAverage(scores)
        recentScores == SubSeq(scores, IF Len(scores) > 2 THEN Len(scores) - 1 ELSE 1,
                               Len(scores))
        recentAverage == calculateAverage(recentScores)
    IN IF shouldAdvanceLevel(averageScore, recentAverage, attempts)
       THEN IF getNextLevel(currentLevel) # "null"
            THEN [action |-> "advance_level", nextLevel |-> getNextLevel(currentLevel),
                  assignedLevel |-> "null"]
            ELSE [action |-> "complete_assessment", nextLevel |-> "null",
                  assignedLevel |-> currentLevel]
       ELSE IF shouldCompleteAtLevel(averageScore, attempts)
       THEN [action |-> "complete_assessment", nextLevel |-> "null",
             assignedLevel |-> currentLevel]
       ELSE [action |-> "next_sentence", nextLevel |-> "null", assignedLevel |-> "null"]

forceProgression(assessment, level) ==
    LET averageScore == calculateAverage(assessment.levelScores[level])
    IN IF RLe(RInt(thresholds.advancement), averageScore) /\ getNextLevel(level) # "null"
       THEN [action |-> "advance_level", nextLevel |-> getNextLevel(level),
             assignedLevel |-> "null"]
       ELSE [action |-> "complete_assessment", nextLevel |-> "null", assignedLevel |-> level]

\* processTestResult leaving the level as it is when the decision is to advance
processTestResult_sameLevel(assessment, result) ==
    LET level == assessment.currentLevel
        score == result.scores.composite
    IN IF level \notin DOMAIN assessment.levelScores
       THEN [thrown |-> TRUE, assessment |-> assessment, decision |-> <<>>]
       ELSE
       LET recorded == [assessment EXCEPT
                            !.levelScores[level] = Append(@, score),
                            !.levelAttempts[level] = @ + 1]
           decision == makeProgressionDecision(recorded, level)
           forceDecision == forceProgression(recorded, level)
           updated ==
               CASE decision.action = "advance_level" ->
                        [recorded EXCEPT !.currentSentenceIndex = 0]
                 [] decision.action = "next_sentence" ->
                        IF recorded.currentSentenceIndex + 1
                               >= Len(CEFR_LEVELS[level].sentences)
                        THEN IF forceDecision.action = "advance_level"
                             THEN [recorded EXCEPT !.currentLevel = forceDecision.nextLevel,
                                                   !.currentSentenceIndex = 0]
                             ELSE [recorded EXCEPT
                                       !.currentSentenceIndex = @ + 1,
                                       !.placementComplete = TRUE,
                                       !.assignedLevel = forceDecision.assignedLevel]
                        ELSE [recorded EXCEPT !.currentSentenceIndex = @ + 1]
                 [] decision.action = "complete_assessment" ->
                        [recorded EXCEPT !.placementComplete = TRUE,
                                         !.assignedLevel = decision.assignedLevel]
       IN [thrown |-> FALSE, assessment |-> updated, decision |-> decision]

\* processTestResult(result) on the current assessment: whether it throws, the
\* assessment it leaves and the decision it returns.  Without an entry for the
\* level, levelScores[level].push throws a TypeError before anything is written.
processTestResult(assessment, result) ==
    LET level == assessment.currentLevel
        score == result.scores.composite
    IN IF level \notin DOMAIN assessment.levelScores
       THEN [thrown |-> TRUE, assessment |-> assessment, decision |-> <<>>]
       ELSE
       LET recorded == [assessment EXCEPT
                            !.levelScores[level] = Append(@, score),
                            !.levelAttempts[level] = @ + 1]
           decision == makeProgressionDecision(recorded, level)
           forceDecision == forceProgression(recorded, level)
           updated ==
               CASE decision.action = "advance_level" ->
                        [recorded EXCEPT !.currentLevel = decision.nextLevel,
                                         !.currentSentenceIndex = 0]
                 [] decision.action = "next_sentence" ->
                        IF recorded.currentSentenceIndex + 1
                               >= Len(CEFR_LEVELS[level].sentences)
                        THEN IF forceDecision.action = "advance_level"
                             THEN [recorded EXCEPT !.currentLevel = forceDecision.nextLevel,
                                                   !.currentSentenceIndex = 0]
                             ELSE [recorded EXCEPT
                                       !.currentSentenceIndex = @ + 1,
                                       !.placementComplete = TRUE,
                                       !.assignedLevel = forceDecision.assignedLevel]
                        ELSE [recorded EXCEPT !.currentSentenceIndex = @ + 1]
                 [] decision.action = "complete_assessment" ->
                        [recorded EXCEPT !.placementComplete = TRUE,
                                         !.assignedLevel = decision.assignedLevel]
       IN [thrown |-> FALSE, assessment |-> updated, decision |-> decision]

\* getCurrentTestInfo(): null when the placement is complete, a TypeError when
\* levelScores has no entry for the level (calculateAverage reads scores.length)
getCurrentTestInfo(assessment) ==
    IF assessment.placementComplete THEN [kind |-> "null"]
    ELSE IF assessment.currentLevel \notin DOMAIN assessment.levelScores
    THEN [kind |-> "TypeError"]
    ELSE [kind |-> "testInfo", level |-> assessment.currentLevel,
          sentenceIndex |-> assessment.currentSentenceIndex]

hasCompletedPlacement(assessment) == assessment.placementComplete

-----------------------------------------------------------------------------
(* The recording pipeline: what the microphone delivers, silence detection, *)
(* the /transcribe route of server.js and the offline analysis               *)

\* a recorded blob is modelled by what decodeAudioData makes of it and by the
\* RMS energy and fundamental frequency of its first channel
AudioBlob(rms, f0) == [decoded |-> "AudioBuffer", rms |-> rms, f0 |-> f0]
UndecodableBlob == [decoded |-> DecodeError, rms |-> NoNum, f0 |-> NoNum]

\* 20 * Math.log10(rms) < -45, decided exactly: log10(0) is -Infinity, and for
\* rms > 0 the comparison is rms < 10^(-9/4), that is 10 * (10^4 * rms^2)^2 < 1
BelowSilenceThreshold(rms) ==
    LET q == RMul(RMul(rms, rms), RInt(10000))
    IN  RLt(RMul(RInt(10), RMul(q, q)), RInt(1))

\* detectSilence with the dB test left out
detectSilence_rmsOnly(audioBlob) ==
    IF audioBlob.decoded = DecodeError THEN FALSE
    ELSE RLt(audioBlob.rms, Rat(1, 1000))

\* detectSilence(audioBlob): false when the blob cannot be decoded
detectSilence(audioBlob) ==
    IF audioBlob.decoded = DecodeError THEN FALSE
    ELSE BelowSilenceThreshold(audioBlob.rms) \/ RLt(audioBlob.rms, Rat(1, 1000))

\* transcription.toLowerCase().replace(/[.,]/g, '').split(' ').filter(word => word)
ServerWords(text) ==
    LET Kept(c) == c \notin {".", ","}
    IN  SelectSeq([i \in 1..Len(text) |-> SelectSeq(WordToLowerCase(text[i]), Kept)],
                  NonEmpty)

\* the answer of POST /transcribe when the recogniser returns `transcription`
\* for the audio: { transcription, accuracy, confidence }.  The fields the
\* client reads later and the answer does not carry, expectedText and
\* isOffline, are undefined.
transcribe(transcription, expectedText) ==
    LET transcriptWords == ServerWords(transcription)
        expectedWords == ServerWords(expectedText)
        shorter == IF Len(transcriptWords) < Len(expectedWords)
                   THEN Len(transcriptWords) ELSE Len(expectedWords)
        correctWords == Cardinality({i \in 1..shorter : transcriptWords[i] = expectedWords[i]})
        accuracy == IF Len(expectedWords) > 0 THEN Rat(correctWords, Len(expectedWords))
                    ELSE RInt(0)
    IN  [kind |-> "json",
         data |-> [transcription |-> transcription, accuracy |-> accuracy,
                   expectedText |-> NoText, isOffline |-> FALSE]]

\* "Real phonetic analysis - offline mode"
OfflineModeText ==
    << <<"R","e","a","l">>, <<"p","h","o","n","e","t","i","c">>,
       <<"a","n","a","l","y","s","i","s">>, <<"-">>,
       <<"o","f","f","l","i","n","e">>, <<"m","o","d","e">> >>

\* getMockAnalysis(duration, idealDuration, expectedText, audioBlob): the fields
\* of the returned record that the scoring reads.  stream holds the results of
\* the two Math.random() calls made when the features cannot be extracted.
getMockAnalysis(duration, idealDuration, expectedText, audioBlob, stream) ==
    LET acousticFeatures == audioBlob.decoded # DecodeError
        durationAccuracy ==
            RMax(RInt(0), RSub(RInt(1), RDiv(RAbs(RSub(duration, idealDuration)),
                                             idealDuration)))
        energyScore == RMin(RInt(1), RMul(audioBlob.rms, RInt(1000)))
        pitchStability == IF RLt(RInt(80), audioBlob.f0) /\ RLt(audioBlob.f0, RInt(300))
                          THEN Rat(9, 10) ELSE Rat(6, 10)
        speechPresence == IF RLt(Rat(1, 10000), audioBlob.rms) THEN RInt(1) ELSE Rat(3, 10)
        speechQuality == RAdd(RAdd(RMul(energyScore, Rat(4, 10)),
                                   RMul(pitchStability, Rat(3, 10))),
                              RMul(speechPresence, Rat(3, 10)))
        pronunciationScore ==
            IF acousticFeatures
            THEN RAdd(RMul(durationAccuracy, Rat(1, 2)), RMul(speechQuality, Rat(1, 2)))
            ELSE RMax(Rat(6, 10), RAdd(RMul(durationAccuracy, Rat(8, 10)),
                                       RMul(stream[1], Rat(1, 10))))
    IN  [accuracy |-> RMax(RInt(0), RMin(RInt(1), pronunciationScore)),
         transcription |-> IF FalsyText(expectedText) THEN OfflineModeText
                           ELSE expectedText,
         expectedText |-> expectedText,
         isOffline |-> TRUE]

\* initializeAssessment(): the stored assessment when there is a valid one,
\* else a new one.  saved is the sequence of the zero or one assessments in
\* the stored settings; a stored assessment is taken to be younger than a day.
isValidAssessment(assessment) == ~assessment.placementComplete

initializeAssessment(saved) ==
    IF saved # <<>> /\ isValidAssessment(saved[1]) THEN saved[1] ELSE FreshAssessment

\* renderTestArea(): whether it throws, the fields of the application after
\* it, the assessment of the engine after it and whether it was saved
renderTestArea(application, assessment) ==
    IF ~application.placementCompleted \/ application.testMode = "placement"
    THEN LET testInfo == getCurrentTestInfo(assessment)
         IN  CASE testInfo.kind = "TypeError" ->
                      [thrown |-> TRUE, app |-> application,
                       assessment |-> assessment, saved |-> FALSE]
               [] testInfo.kind = "testInfo" ->
                      [thrown |-> FALSE,
                       app |-> [application EXCEPT
                                   !.currentLevel = testInfo.level,
                                   !.currentSentenceIndex = testInfo.sentenceIndex],
                       assessment |-> assessment, saved |-> FALSE]
               [] testInfo.kind = "null" ->
                      [thrown |-> FALSE,
                       app |-> [application EXCEPT !.currentLevel = "A1",
                                                   !.currentSentenceIndex = 0],
                       assessment |-> startPlacementTest, saved |-> TRUE]
    ELSE [thrown |-> FALSE, app |-> application, assessment |-> assessment,
          saved |-> FALSE]

-----------------------------------------------------------------------------
(* The transcription client on its own: one call against every network behaviour *)

NoData == [accuracy |-> NoNum, transcription |-> NoText]

TxResponses ==
    {[kind |-> k, data |-> NoData] : k \in ResponseKinds \ {"json"}}
    \cup {[kind |-> "json", data |-> [accuracy |-> a, transcription |-> TheCatSat]]
            : a \in {Rat(9, 10), Rat(3, 2)}}

InitTx ==
    /\ ScoreIdle
    /\ PhonIdle
    /\ RepeatIdle
    /\ GeneratorIdle
    /\ AppIdle
    /\ CallsIdle
    /\ txIn \in [1..(retryAttempts + 1) -> TxResponses]
    /\ txOut = <<>>

CallTranscribeAudio ==
    /\ txOut = <<>>
    /\ txOut' = <<transcribeAudio(txIn, 0)>>
    /\ UNCHANGED <<txIn, scoreVars, phonVars, repeatVars, appVars, calls, exerciseDatabase>>

-----------------------------------------------------------------------------
(* The scoring engine on its own: one call on arguments drawn from bounded sets *)

\* longest text, in tokens, handed to the scoring engine
MaxWords == 3

ScoreTexts == SeqsUpTo({<<"c", "a", "t">>, <<"?">>}, MaxWords) \cup {TheCatSat}

ScoreAccuracies ==
    {NoNum, Rat(-1, 2), RInt(0), Rat(2, 5), Rat(79, 100), Rat(9, 10), RInt(1), Rat(3, 2)}

ScoreDurations == {NoNum, RInt(0), RInt(3), Rat(9, 2), RInt(5), RInt(9)}

ScoreIdealDurations == {NoNum, RInt(5), RInt(-5)}


InitScore ==
    /\ TxIdle
    /\ PhonIdle
    /\ RepeatIdle
    /\ GeneratorIdle
    /\ AppIdle
    /\ CallsIdle
    /\ scIn \in [analysisData : [accuracy : ScoreAccuracies,
                                 transcription : {NoText} \cup ScoreTexts,
                                 expectedText : {NoText} \cup ScoreTexts,
                                 isOffline : BOOLEAN],
                 duration : ScoreDurations,
                 idealDuration : ScoreIdealDurations]
    /\ scOut = <<>>

CallCalculateScore ==
    /\ scOut = <<>>
    /\ scOut' = <<calculateScore(scIn.analysisData, scIn.duration, scIn.idealDuration)>>
    /\ UNCHANGED <<scIn, txVars, phonVars, repeatVars, appVars, calls, exerciseDatabase>>

NextScore == CallCalculateScore

SpecScore == InitScore /\ [][NextScore]_vars

NextTx == CallTranscribeAudio

SpecTx == InitTx /\ [][NextTx]_vars

-----------------------------------------------------------------------------
(* calculateFluencyScore and calculateScore called twice, so that the results *)
(* of two calls can be compared                                               *)

\* longest duration handed to calculateFluencyScore, in half seconds
MaxHalfSeconds == 24

FluencyArguments ==
    [duration : {Rat(k, 2) : k \in 1..MaxHalfSeconds},
     idealDuration : {RInt(5), RInt(10)}]

InitFluency ==
    /\ TxIdle
    /\ PhonIdle
    /\ RepeatIdle
    /\ GeneratorIdle
    /\ AppIdle
    /\ CallsIdle
    /\ scIn \in [1..2 -> FluencyArguments]
    /\ scOut = <<>>

CallCalculateFluencyScore ==
    /\ Len(scOut) < Len(scIn)
    /\ LET arguments == scIn[Len(scOut) + 1]
       IN  scOut' = Append(scOut, calculateFluencyScore(arguments.duration,
                                                        arguments.idealDuration))
    /\ UNCHANGED <<scIn, txVars, phonVars, repeatVars, appVars, calls, exerciseDatabase>>

NextFluency == CallCalculateFluencyScore

SpecFluency == InitFluency /\ [][NextFluency]_vars

\* steps of the accuracy handed to calculateScore, from 0 to 1
AccuracySteps == 10

GradeArguments ==
    [analysisData : [accuracy : {Rat(k, AccuracySteps) : k \in 0..AccuracySteps},
                     transcription : {TheCatSat},
                     expectedText : {TheCatSat},
                     isOffline : BOOLEAN],
     duration : {RInt(3), Rat(9, 2), RInt(5), RInt(7)},
     idealDuration : {RInt(5)}]

InitGrades ==
    /\ TxIdle
    /\ PhonIdle
    /\ RepeatIdle
    /\ GeneratorIdle
    /\ AppIdle
    /\ CallsIdle
    /\ scIn \in [1..2 -> GradeArguments]
    /\ scOut = <<>>

CallCalculateScoreInTurn ==
    /\ Len(scOut) < Len(scIn)
    /\ LET arguments == scIn[Len(scOut) + 1]
       IN  scOut' = Append(scOut, calculateScore(arguments.analysisData,
                                                 arguments.duration,
                                                 arguments.idealDuration))
    /\ UNCHANGED <<scIn, txVars, phonVars, repeatVars, appVars, calls, exerciseDatabase>>

NextGrades == CallCalculateScoreInTurn

SpecGrades == InitGrades /\ [][NextGrades]_vars

-----------------------------------------------------------------------------
(* The StorageManager on its own: a bounded number of calls on one           *)
(* localStorage, each logged with the history stored before and after it     *)

MaxCalls == 3
MaxImported == 52

\* everything but the storage and the log of calls
storageFrame ==
    <<scoreVars, txVars, phonVars, repeatVars, app, audioRecorder, recordings, timers,
      initializing, stops, adaptiveTesting, exerciseDatabase>>

\* the results the application hands to saveTestResult
SavedResults ==
    { [level |-> "A1", sentence |-> TheCatSat, scores |-> [composite |-> 82], grade |-> "B2",
       duration |-> RInt(5), idealDuration |-> RInt(5), isOffline |-> FALSE],
      [level |-> "B1", sentence |-> TheCatSat, scores |-> [composite |-> 47], grade |-> "A1",
       duration |-> RInt(9), idealDuration |-> RInt(5), isOffline |-> TRUE] }

\* the k-th entry of an exported history, newest first
ExportedEntry(k) ==
    [id |-> 0 - k, level |-> "A2", sentence |-> TheCatSat, scores |-> [composite |-> 70],
     grade |-> "B1", duration |-> RInt(5), idealDuration |-> RInt(5), isOffline |-> FALSE]

\* what JSON.parse gives for the files handed to importData: exports with
\* histories of several lengths, and an object without testHistory
ImportedData ==
    { [testHistory |-> [k \in 1..n |-> ExportedEntry(k)]] :
          n \in {0, 1, maxResults - 1, maxResults, MaxImported} }
        \cup { [version |-> "1.0"] }

InitStorage ==
    /\ ScoreIdle
    /\ TxIdle
    /\ PhonIdle
    /\ RepeatIdle
    /\ GeneratorIdle
    /\ app = <<>>
    /\ audioRecorder = <<>>
    /\ recordings = <<>>
    /\ timers = <<>>
    /\ initializing = <<>>
    /\ stops = <<>>
    /\ adaptiveTesting = <<>>
    /\ storage = [results |-> <<>>, currentAssessment |-> <<>>]
    /\ calls = <<>>

\* saveTestResult(result) with localStorage taking the write
SaveTestResult ==
    /\ Len(calls) < MaxCalls
    /\ \E result \in SavedResults :
           LET id == Len(calls) + 1
               results == saveTestResult(storage.results, result, id)
           IN  /\ storage' = [storage EXCEPT !.results = results]
               /\ calls' = Append(calls, [operation |-> "saveTestResult", argument |-> result,
                                          returned |-> id, before |-> storage.results,
                                          after |-> results])
    /\ UNCHANGED storageFrame

\* saveTestResult(result) with setItem throwing: the catch returns null
SaveTestResultRejected ==
    /\ Len(calls) < MaxCalls
    /\ \E result \in SavedResults :
           calls' = Append(calls, [operation |-> "saveTestResult", argument |-> result,
                                   returned |-> 0, before |-> storage.results,
                                   after |-> storage.results])
    /\ UNCHANGED <<storage, storageFrame>>

ImportData ==
    /\ Len(calls) < MaxCalls
    /\ \E data \in ImportedData :
           LET results == importData(storage.results, data)
           IN  /\ storage' = [storage EXCEPT !.results = results]
               /\ calls' = Append(calls, [operation |-> "importData", argument |-> data,
                                          returned |-> 0, before |-> storage.results,
                                          after |-> results])
    /\ UNCHANGED storageFrame

ClearHistory ==
    /\ Len(calls) < MaxCalls
    /\ storage' = [storage EXCEPT !.results = clearHistory]
    /\ calls' = Append(calls, [operation |-> "clearHistory", argument |-> <<>>,
                               returned |-> 0, before |-> storage.results,
                               after |-> clearHistory])
    /\ UNCHANGED storageFrame

NextStorage == SaveTestResult \/ SaveTestResultRejected \/ ImportData \/ ClearHistory

SpecStorage == InitStorage /\ [][NextStorage]_vars

-----------------------------------------------------------------------------
(* The AdaptiveTestingEngine on its own: placement tests started and fed     *)
(* with results until they are complete                                      *)

\* the composite scores of the results: below struggle, between struggle and
\* advancement, between advancement and mastery, above mastery
PlacementScores == {50, 65, 80, 90}

\* the scores a level is fed, in the order of the attempts at it; every level
\* of one placement test is fed the same
ScorePatterns == [1..thresholds.maxAttempts -> PlacementScores]

\* everything but the engine, the storage and the log of calls
engineFrame ==
    <<scoreVars, txVars, phonVars, repeatVars, app, audioRecorder, recordings, timers,
      initializing, stops, exerciseDatabase>>

\* the constructor: initializeAssessment() with nothing stored
InitPlacement ==
    /\ ScoreIdle
    /\ TxIdle
    /\ PhonIdle
    /\ RepeatIdle
    /\ GeneratorIdle
    /\ app = <<>>
    /\ audioRecorder = <<>>
    /\ recordings = <<>>
    /\ timers = <<>>
    /\ initializing = <<>>
    /\ stops = <<>>
    /\ adaptiveTesting = [currentAssessment |-> initializeAssessment(<<>>)]
    /\ storage = [results |-> <<>>, currentAssessment |-> <<>>]
    /\ calls = [count |-> 0, pattern |-> <<>>, last |-> <<>>]

\* startPlacementTest(): on the constructed engine, and again once a placement
\* is complete, as renderTestArea does when getCurrentTestInfo() returns null
StartPlacementTest ==
    /\ \/ adaptiveTesting.currentAssessment = FreshAssessment
       \/ adaptiveTesting.currentAssessment.placementComplete
    /\ adaptiveTesting' = [currentAssessment |-> startPlacementTest]
    /\ storage' = [storage EXCEPT !.currentAssessment = <<startPlacementTest>>]
    /\ \E pattern \in ScorePatterns : calls' = [count |-> 0, pattern |-> pattern, last |-> <<>>]
    /\ UNCHANGED engineFrame

\* processTestResult(result) during a placement test; the application calls it
\* only while the placement is not completed
ProcessTestResult ==
    /\ adaptiveTesting.currentAssessment # FreshAssessment
    /\ ~adaptiveTesting.currentAssessment.placementComplete
    /\ LET assessment == adaptiveTesting.currentAssessment
           level == assessment.currentLevel
           score == calls.pattern[(assessment.levelAttempts[level] % thresholds.maxAttempts) + 1]
           processed == processTestResult(assessment, [scores |-> [composite |-> score]])
       IN  /\ adaptiveTesting' = [currentAssessment |-> processed.assessment]
           /\ storage' = [storage EXCEPT !.currentAssessment = <<processed.assessment>>]
           /\ calls' = [calls EXCEPT
                           !.count = @ + 1,
                           !.last = [thrown |-> FALSE, levelBefore |-> level,
                                     levelAfter |-> processed.assessment.currentLevel,
                                     recorded |-> processed.assessment.levelScores[level],
                                     action |-> processed.decision.action]]
    /\ UNCHANGED engineFrame

\* processTestResult(result) on the constructed engine, whose assessment has no
\* levelScores for A1: the TypeError leaves the assessment as it was
ProcessTestResultBeforeStart ==
    /\ adaptiveTesting.currentAssessment = FreshAssessment
    /\ calls.last = <<>>
    /\ \E score \in PlacementScores :
         LET processed == processTestResult(adaptiveTesting.currentAssessment,
                                            [scores |-> [composite |-> score]])
         IN  /\ processed.thrown
             /\ calls' = [calls EXCEPT !.last = [thrown |-> TRUE, levelBefore |-> "A1",
                                                 levelAfter |-> processed.assessment.currentLevel,
                                                 recorded |-> <<score>>, action |-> "TypeError"]]
    /\ UNCHANGED <<adaptiveTesting, storage, engineFrame>>

NextPlacement == StartPlacementTest \/ ProcessTestResult \/ ProcessTestResultBeforeStart

SpecPlacement == InitPlacement /\ [][NextPlacement]_vars

-----------------------------------------------------------------------------
(* The AdaptiveTestingEngine across reloads of the page: besides the calls   *)
(* of SpecPlacement, a new engine is constructed over the stored settings,   *)
(* and getCurrentTestInfo is called on whatever engine there is.             *)

\* new AdaptiveTestingEngine(storage): initializeAssessment() reads the stored
\* settings, less than a day after they were saved
ConstructEngine ==
    /\ IF calls.last = <<>> THEN TRUE ELSE calls.last.action # "constructor"
    /\ LET constructed == initializeAssessment(storage.currentAssessment)
       IN  /\ adaptiveTesting' = [currentAssessment |-> constructed]
           /\ calls' = [calls EXCEPT
                           !.last = [thrown |-> FALSE,
                                     levelBefore |-> adaptiveTesting.currentAssessment.currentLevel,
                                     levelAfter |-> constructed.currentLevel,
                                     recorded |-> storage.currentAssessment,
                                     action |-> "constructor"]]
    /\ UNCHANGED <<storage, engineFrame>>

\* getCurrentTestInfo(): it writes nothing
GetCurrentTestInfo ==
    /\ IF calls.last = <<>> THEN TRUE ELSE calls.last.action # "getCurrentTestInfo"
    /\ LET testInfo == getCurrentTestInfo(adaptiveTesting.currentAssessment)
           level == adaptiveTesting.currentAssessment.currentLevel
       IN  calls' = [calls EXCEPT
                        !.last = [thrown |-> testInfo.kind = "TypeError",
                                  levelBefore |-> level, levelAfter |-> level,
                                  recorded |-> <<testInfo>>,
                                  action |-> "getCurrentTestInfo"]]
    /\ UNCHANGED <<adaptiveTesting, storage, engineFrame>>

NextReload == NextPlacement \/ ConstructEngine \/ GetCurrentTestInfo

SpecReload == InitPlacement /\ [][NextReload]_vars

-----------------------------------------------------------------------------
(* The phonetic analysis engine on its own: one analyzePhonetics invocation, *)
(* advancing from one await to the next                                      *)

\* the values Math.random() returns in the model: one at most 0.2, one between
\* 0.2 and 0.3, one above every accuracy that is not excellent
RandomDraws == {RInt(0), Rat(1, 4), Rat(9, 10)}

\* the streams of n draws
Streams(n) == [1..n -> RandomDraws]

\* acoustic features of a loud, clear reading
ClearFeatures ==
    [fundamental |-> [mean |-> RInt(150), range |-> RInt(60)],
     formants |-> [F1 |-> RInt(700), F2 |-> RInt(1700), F3 |-> RInt(2500)],
     spectral |-> [centroid |-> RInt(2500), bandwidth |-> RInt(1200), rolloff |-> RInt(4000),
                   clarity |-> Rat(8, 10)],
     temporal |-> [duration |-> RInt(1), silences |-> RInt(0), voicedRatio |-> Rat(9, 10)],
     energy |-> [rms |-> Rat(3, 10), peak |-> Rat(9, 10)]]

\* acoustic features of a slow, quiet reading
QuietFeatures ==
    [fundamental |-> [mean |-> RInt(110), range |-> RInt(20)],
     formants |-> [F1 |-> RInt(400), F2 |-> RInt(2000), F3 |-> RInt(2600)],
     spectral |-> [centroid |-> RInt(900), bandwidth |-> RInt(500), rolloff |-> RInt(1500),
                   clarity |-> Rat(2, 10)],
     temporal |-> [duration |-> RInt(3), silences |-> RInt(2), voicedRatio |-> Rat(4, 10)],
     energy |-> [rms |-> Rat(15, 100), peak |-> Rat(3, 10)]]

PhonAudio ==
    {[decoded |-> DecodeError],
     [decoded |-> "AudioBuffer", features |-> ClearFeatures],
     [decoded |-> "AudioBuffer", features |-> QuietFeatures]}

\* undefined, "", "it?", "Cat"
PhonTexts == {NoText, <<>>, << <<"i", "t", "?">> >>, << <<"C", "a", "t">> >>}

PhonLevels == {"A1", "B2"}

InitPhon ==
    /\ ScoreIdle
    /\ TxIdle
    /\ RepeatIdle
    /\ GeneratorIdle
    /\ AppIdle
    /\ CallsIdle
    /\ \E audioData \in PhonAudio, text \in PhonTexts, level \in PhonLevels :
          phFrame = [audioData |-> audioData, text |-> text, level |-> level,
                     pc |-> "extractAcousticFeatures"]

\* const acousticFeatures = await this.extractAcousticFeatures(audioData)
AwaitExtractAcousticFeatures ==
    /\ phFrame # <<>>
    /\ phFrame.pc = "extractAcousticFeatures"
    /\ phFrame' = [audioData |-> phFrame.audioData, text |-> phFrame.text,
                   level |-> phFrame.level, pc |-> "segmentPhonetically",
                   acousticFeatures |-> extractAcousticFeatures(phFrame.audioData)]
    /\ UNCHANGED <<scoreVars, txVars, repeatVars, appVars, calls, exerciseDatabase>>

\* const phoneticSegments = await this.segmentPhonetically(acousticFeatures, text);
\* text.toLowerCase() throws on undefined and the catch block returns the fallback
AwaitSegmentPhonetically ==
    /\ phFrame # <<>>
    /\ phFrame.pc = "segmentPhonetically"
    /\ IF phFrame.text = NoText
       THEN phFrame' = [audioData |-> phFrame.audioData, text |-> phFrame.text,
                        level |-> phFrame.level, pc |-> "returned",
                        result |-> getFallbackAnalysis(phFrame.text, phFrame.level)]
       ELSE \E stream \in Streams(segmentPhoneticallyDraws(phFrame.text)) :
               phFrame' = [audioData |-> phFrame.audioData, text |-> phFrame.text,
                      level |-> phFrame.level,
                           pc |-> "analyzeSegmentals",
                           acousticFeatures |-> phFrame.acousticFeatures,
                           phoneticSegments |->
                               segmentPhonetically(phFrame.acousticFeatures, phFrame.text,
                                                   stream)]
    /\ UNCHANGED <<scoreVars, txVars, repeatVars, appVars, calls, exerciseDatabase>>

\* const segmentalAnalysis = await this.analyzeSegmentals(phoneticSegments, level)
AwaitAnalyzeSegmentals ==
    /\ phFrame # <<>>
    /\ phFrame.pc = "analyzeSegmentals"
    /\ \E stream \in Streams(analyzeSegmentalsDraws(phFrame.phoneticSegments)) :
          phFrame' = [audioData |-> phFrame.audioData, text |-> phFrame.text,
                      level |-> phFrame.level,
                      pc |-> "analyzeSuprasegmentals",
                      acousticFeatures |-> phFrame.acousticFeatures,
                      segmentalAnalysis |->
                          analyzeSegmentals(phFrame.phoneticSegments, phFrame.level, stream)]
    /\ UNCHANGED <<scoreVars, txVars, repeatVars, appVars, calls, exerciseDatabase>>

\* const suprasegmentalAnalysis = await this.analyzeSuprasegmentals(...)
AwaitAnalyzeSuprasegmentals ==
    /\ phFrame # <<>>
    /\ phFrame.pc = "analyzeSuprasegmentals"
    /\ \E stream \in Streams(analyzeSuprasegmentalsDraws(phFrame.text)) :
          phFrame' = [audioData |-> phFrame.audioData, text |-> phFrame.text,
                      level |-> phFrame.level,
                      pc |-> "generateDetailedFeedback",
                      segmentalAnalysis |-> phFrame.segmentalAnalysis,
                      suprasegmentalAnalysis |->
                          analyzeSuprasegmentals(phFrame.acousticFeatures, phFrame.text,
                                                 phFrame.level, stream)]
    /\ UNCHANGED <<scoreVars, txVars, repeatVars, appVars, calls, exerciseDatabase>>

\* generateDetailedFeedback, calculateOverallScore and the return of the try block
ReturnAnalysis ==
    /\ phFrame # <<>>
    /\ phFrame.pc = "generateDetailedFeedback"
    /\ phFrame' = [audioData |-> phFrame.audioData, text |-> phFrame.text,
                        level |-> phFrame.level, pc |-> "returned",
                   result |-> AnalysisResult(phFrame.segmentalAnalysis,
                                             phFrame.suprasegmentalAnalysis,
                                             phFrame.text, phFrame.level)]
    /\ UNCHANGED <<scoreVars, txVars, repeatVars, appVars, calls, exerciseDatabase>>

NextPhon ==
    \/ AwaitExtractAcousticFeatures
    \/ AwaitSegmentPhonetically
    \/ AwaitAnalyzeSegmentals
    \/ AwaitAnalyzeSuprasegmentals
    \/ ReturnAnalysis

SpecPhon == InitPhon /\ [][NextPhon]_vars

-----------------------------------------------------------------------------
(* The helpers of the phonetic analysis engine called on their own: one      *)
(* call, logged with its arguments and what it returned                      *)

\* everything but the log of calls
callFrame == <<scoreVars, txVars, phonVars, repeatVars, appVars, exerciseDatabase>>

InitHelpers ==
    /\ ScoreIdle
    /\ TxIdle
    /\ PhonIdle
    /\ RepeatIdle
    /\ GeneratorIdle
    /\ AppIdle
    /\ calls = <<>>

\* the sentences analyzeIntonation is called on: "", "Cat", "it?", "Is it?",
\* "Why? me", "a?b c"
IntonationTexts ==
    { <<>>,
      << <<"C", "a", "t">> >>,
      << <<"i", "t", "?">> >>,
      << <<"I", "s">>, <<"i", "t", "?">> >>,
      << <<"W", "h", "y", "?">>, <<"m", "e">> >>,
      << <<"a", "?", "b">>, <<"c">> >> }

CallAnalyzeIntonation ==
    /\ calls = <<>>
    /\ \E features \in {ClearFeatures, QuietFeatures}, text \in IntonationTexts,
          stream \in Streams(2) :
           calls' = <<[operation |-> "analyzeIntonation", text |-> text,
                       returned |-> analyzeIntonation(features, text, stream)]>>
    /\ UNCHANGED callFrame

\* the sentences segmentPhonetically is called on: "", "Cat", "it?",
\* "The cat sat", "a?b c"
SegmentedTexts ==
    { <<>>, << <<"C", "a", "t">> >>, << <<"i", "t", "?">> >>, TheCatSat,
      << <<"a", "?", "b">>, <<"c">> >> }

CallSegmentPhonetically ==
    /\ calls = <<>>
    /\ \E features \in {ClearFeatures, QuietFeatures, getFallbackFeatures},
          text \in SegmentedTexts :
         \E stream \in Streams(segmentPhoneticallyDraws(text)) :
           calls' = <<[operation |-> "segmentPhonetically", text |-> text,
                       duration |-> features.temporal.duration,
                       returned |-> segmentPhonetically(features, text, stream)]>>
    /\ UNCHANGED callFrame

\* the size of a very large feature value
Extreme == 100000

\* the feature records analyzePhoneme is called on: ordinary, zero, very large
\* and negative values of energy, clarity, formants and centroid, and records
\* without spectral features
PhonemeFeatures ==
    LET Energies == {RInt(0 - Extreme), RInt(0), Rat(15, 100), Rat(3, 10), RInt(Extreme)}
        Clarities == {RInt(0 - Extreme), RInt(0), Rat(8, 10), RInt(Extreme)}
        Centroids == {RInt(0 - Extreme), RInt(2500), RInt(Extreme)}
        Formants == [F1 : {RInt(0 - Extreme), RInt(0), RInt(700), RInt(Extreme)},
                     F2 : {RInt(0 - Extreme), RInt(1700), RInt(Extreme)},
                     F3 : {RInt(2500)}]
    IN  [energy : Energies, formants : Formants,
         spectral : [clarity : Clarities, centroid : Centroids]]
            \cup [energy : Energies, formants : Formants]

\* a vowel with formant targets, a vowel without, a fricative, a stop, a nasal
Phonemes == { <<"{">>, <<"e">>, <<"s">>, <<"t">>, <<"m">> }

CallAnalyzePhoneme ==
    /\ calls = <<>>
    /\ \E phoneme \in Phonemes, features \in PhonemeFeatures, level \in {"A1", "B2", "D1"},
          random \in RandomDraws :
           calls' = <<[operation |-> "analyzePhoneme", phoneme |-> phoneme,
                       features |-> features, level |-> level,
                       returned |-> analyzePhoneme(phoneme, features, level,
                                                   [i \in 1..2 |-> random])]>>
    /\ UNCHANGED callFrame

NextHelpers == CallAnalyzeIntonation \/ CallSegmentPhonetically \/ CallAnalyzePhoneme

SpecHelpers == InitHelpers /\ [][NextHelpers]_vars

-----------------------------------------------------------------------------
(* PronunciationExerciseGenerator.  An exercise is modelled by its type, its *)
(* instructions and its pairs, words and sentences; a list the exercise does *)
(* not have is <<>> (no list of the database is empty), pairs are given by   *)
(* their target word, and the lists no adaptation reads (phrases, questions, *)
(* statements, exercises) are left out, as are name and description.         *)

Exercise(type, instructions, pairs, words, sentences) ==
    [type |-> type, instructions |-> instructions, pairs |-> pairs, words |-> words,
     sentences |-> sentences]

\* initializeExerciseDatabase(): the exercises of every entry
initializeExerciseDatabase ==
    [vowels |->
        (<<"{">> :>
            << Exercise("minimal_pairs", "Practice distinguishing /ae/ from similar sounds",
                        <<"cat", "bat", "hat", "back">>, <<>>, <<>>),
               Exercise("isolation", "Practice the /ae/ sound in isolation", <<>>,
                        <<"cat", "bat", "hat", "mat", "sat", "fat", "rat", "pat">>, <<>>),
               Exercise("sentences", "Practice /ae/ in connected speech", <<>>, <<>>,
                        <<"The cat sat on the mat.", "Pat had a black hat.",
                          "The bat flew back to the cave.">>) >>)
        @@ (<<"i", ":">> :>
            << Exercise("minimal_pairs", "Distinguish /i:/ from /I/",
                        <<"sheep", "beat", "seat">>, <<>>, <<>>) >>),
     consonants |->
        (<<"T">> :>
            << Exercise("articulation", "Place tongue tip between teeth, blow air gently",
                        <<>>, <<"think", "three", "thin", "thick", "throw", "thumb">>, <<>>),
               Exercise("minimal_pairs", "Distinguish /T/ from /s/",
                        <<"think", "thick", "three">>, <<>>, <<>>) >>)
        @@ (<<"D">> :>
            << Exercise("articulation", "Place tongue between teeth, add voice/vibration",
                        <<>>, <<"this", "that", "these", "those", "they", "then">>, <<>>) >>)
        @@ (<<"r">> :>
            << Exercise("articulation",
                        "Curl tongue tip back slightly, do not touch roof of mouth",
                        <<>>, <<"red", "run", "right", "room", "ready", "really">>, <<>>),
               Exercise("minimal_pairs", "Distinguish /r/ from /l/",
                        <<"right", "red", "rice">>, <<>>, <<>>) >>),
     suprasegmental |->
        ("stress" :>
            << Exercise("stress_patterns", "Practice stress on first vs second syllable",
                        <<>>, <<"TEAcher", "beTWEEN", "HAPpy">>, <<>>),
               Exercise("sentence_stress", "Emphasize content words, reduce function words",
                        <<>>, <<>>,
                        <<"I WANT to GO to the STORE", "She IS a GOOD teachER">>) >>)
        @@ ("rhythm" :>
            << Exercise("rhythm_drills", "Practice even syllable timing", <<>>, <<>>, <<>>) >>)
        @@ ("intonation" :>
            << Exercise("question_intonation", "Use rising pitch for yes/no questions",
                        <<>>, <<>>, <<>>),
               Exercise("statement_intonation", "Use falling pitch for statements",
                        <<>>, <<>>, <<>>) >>),
     clarity |->
        ("energy" :>
            << Exercise("projection", "Speak clearly and loudly enough to be heard",
                        <<>>, <<>>,
                        <<"Please speak clearly and distinctly.",
                          "Good pronunciation requires clear articulation.",
                          "Practice makes perfect pronunciation.">>),
               Exercise("articulation", "Warm up your articulators", <<>>, <<>>, <<>>) >>)]

\* the problems identifyProblemAreas finds in the details of one kind of sound
SoundProblems(sounds, type) ==
    IF RLt(sounds.accuracy, Rat(7, 10))
    THEN LET Low(detail) == RLt(detail.accuracy, Rat(7, 10))
             low == SelectSeq(sounds.details, Low)
         IN [i \in 1..Len(low) |->
                [type |-> type, sound |-> low[i].phoneme,
                 severity |-> RSub(RInt(1), low[i].accuracy), category |-> "segmental",
                 issues |-> low[i].issues]]
    ELSE <<>>

\* the problem of one suprasegmental dimension; it has no sound, which is <<>>
DimensionProblem(dimension, type) ==
    IF RLt(dimension.accuracy, Rat(7, 10))
    THEN << [type |-> type, sound |-> <<>>,
             severity |-> RSub(RInt(1), dimension.accuracy), category |-> "suprasegmental",
             issues |-> dimension.issues] >>
    ELSE <<>>

identifyProblemAreas(analysis) ==
    SoundProblems(analysis.segmental.vowels, "vowel")
        \o SoundProblems(analysis.segmental.consonants, "consonant")
        \o DimensionProblem(analysis.suprasegmental.stress, "stress")
        \o DimensionProblem(analysis.suprasegmental.rhythm, "rhythm")
        \o DimensionProblem(analysis.suprasegmental.intonation, "intonation")
        \o (IF RLt(analysis.overall, RInt(60))
            THEN << [type |-> "energy", sound |-> <<>>,
                     severity |-> RDiv(RSub(RInt(60), analysis.overall), RInt(60)),
                     category |-> "clarity",
                     issues |-> <<"Low speech energy", "Unclear articulation">>] >>
            ELSE <<>>)

\* exerciseData of createTargetedExercises: where the exercises of the problem
\* are in the database, <<>> if it has none
ExerciseData(database, problem) ==
    LET key == IF problem.category = "segmental" THEN problem.sound ELSE problem.type
        category ==
            CASE problem.category = "segmental" /\ problem.type = "vowel" -> "vowels"
              [] problem.category = "segmental" /\ problem.type = "consonant" -> "consonants"
              [] problem.category = "suprasegmental" -> "suprasegmental"
              [] problem.category = "clarity" -> "clarity"
    IN IF key \in DOMAIN database[category] THEN <<category, key>> ELSE <<>>

\* problem.sound || problem.type
targetSound(problem) == IF problem.sound # <<>> THEN problem.sound ELSE <<problem.type>>

\* the characters of a phoneme as one string
RECURSIVE Spelled(_)
Spelled(phoneme) == IF phoneme = <<>> THEN "" ELSE Head(phoneme) \o Spelled(Tail(phoneme))

\* the template literals print a missing sound as undefined
generateAdvancedSentences(problem) ==
    CASE problem.sound = <<"T">> ->
            <<"Three things through thick and thin.",
              "The thoughtful thesis thoroughly tested theories.">>
      [] problem.sound = <<"D">> ->
            <<"They gather together in the weather.",
              "These rather smooth feathers feel soothing.">>
      [] problem.sound = <<"r">> ->
            <<"Really red roses grow rapidly in rich soil.",
              "The rural railroad requires regular repairs.">>
      [] OTHER ->
            LET sound == IF problem.sound = <<>> THEN "undefined" ELSE Spelled(problem.sound)
            IN <<"Practice " \o sound \o " in connected speech.",
                 "Focus on natural " \o sound \o " production.">>

estimateExerciseTime(exercise) ==
    CASE exercise.type = "minimal_pairs" -> 4
      [] exercise.type = "isolation" -> 3
      [] exercise.type = "sentences" -> 5
      [] exercise.type = "articulation" -> 6
      [] exercise.type = "stress_patterns" -> 7
      [] exercise.type = "rhythm_drills" -> 5
      [] exercise.type = "question_intonation" -> 4
      [] exercise.type = "projection" -> 3
      [] OTHER -> 5

slice(list, start, end) == SubSeq(list, start + 1, IF end < Len(list) THEN end ELSE Len(list))

\* the copy adaptExerciseToLevel returns; its sentences are the array of the
\* database itself, named by where it is
adaptExerciseToLevel(exercise, userLevel, where) ==
    LET shared == IF exercise.sentences # <<>> THEN where ELSE <<>>
        adapted == [type |-> exercise.type, instructions |-> exercise.instructions,
                    pairs |-> exercise.pairs, words |-> exercise.words, sentences |-> shared]
    IN IF userLevel \in {"A1", "A2"}
       THEN [adapted EXCEPT
                !.instructions = "Start slowly. " \o @,
                !.pairs = IF adapted.type = "minimal_pairs" THEN slice(@, 0, 3) ELSE @,
                !.words = IF @ # <<>> THEN slice(@, 0, 5) ELSE @]
       ELSE IF userLevel \in {"B1", "B2"}
       THEN [adapted EXCEPT !.instructions = @ \o " Practice at normal speaking speed."]
       ELSE [adapted EXCEPT !.instructions = @ \o " Focus on natural, fluent production."]

\* the database after adaptExerciseToLevel: for any level that is neither A
\* nor B the sentences of the exercise itself receive the advanced sentences
adaptedDatabase(database, userLevel, problem, where) ==
    LET exercise == database[where[1]][where[2]][where[3]]
    IN IF userLevel \notin {"A1", "A2", "B1", "B2"} /\ exercise.sentences # <<>>
       THEN [database EXCEPT ![where[1]][where[2]][where[3]].sentences =
                                 @ \o generateAdvancedSentences(problem)]
       ELSE database

createGenericExercise(problem, userLevel) ==
    << [type |-> "generic",
        instructions |-> "Focus on improving your " \o problem.type \o " pronunciation",
        pairs |-> <<>>, words |-> <<>>, sentences |-> <<>>,
        targetSound |-> targetSound(problem),
        priority |-> problem.severity,
        category |-> problem.category,
        estimatedTime |-> 5] >>

\* the loop of createTargetedExercises from exercise number index on: the
\* exercises and the database it leaves
RECURSIVE TargetedFrom(_, _, _, _, _)
TargetedFrom(database, problem, userLevel, data, index) ==
    IF index > Len(database[data[1]][data[2]])
    THEN [exercises |-> <<>>, database |-> database]
    ELSE LET where == <<data[1], data[2], index>>
             exercise == database[data[1]][data[2]][index]
             adaptedExercise ==
                 adaptExerciseToLevel(exercise, userLevel, where) @@
                 [targetSound |-> targetSound(problem),
                  priority |-> problem.severity,
                  category |-> problem.category,
                  estimatedTime |-> estimateExerciseTime(exercise)]
             rest == TargetedFrom(adaptedDatabase(database, userLevel, problem, where),
                                  problem, userLevel, data, index + 1)
         IN [exercises |-> <<adaptedExercise>> \o rest.exercises, database |-> rest.database]

createTargetedExercises(database, problem, userLevel) ==
    LET exerciseData == ExerciseData(database, problem)
    IN IF exerciseData = <<>>
       THEN [exercises |-> createGenericExercise(problem, userLevel), database |-> database]
       ELSE TargetedFrom(database, problem, userLevel, exerciseData, 1)

\* the loop of generateExercises over the problems
RECURSIVE TargetedForAll(_, _, _)
TargetedForAll(database, problems, userLevel) ==
    IF problems = <<>> THEN [exercises |-> <<>>, database |-> database]
    ELSE LET first == createTargetedExercises(database, Head(problems), userLevel)
             rest == TargetedForAll(first.database, Tail(problems), userLevel)
         IN [exercises |-> first.exercises \o rest.exercises, database |-> rest.database]

\* Array.prototype.sort with (a, b) => b.key - a.key is stable and puts the
\* largest key first; keys[i] is the key of list[i]
RECURSIVE InsertDescending(_, _, _)
InsertDescending(sorted, index, keys) ==
    IF sorted = <<>> THEN <<index>>
    ELSE IF RLt(keys[Head(sorted)], keys[index]) THEN <<index>> \o sorted
    ELSE <<Head(sorted)>> \o InsertDescending(Tail(sorted), index, keys)

RECURSIVE SortedIndices(_, _)
SortedIndices(n, keys) ==
    IF n = 0 THEN <<>> ELSE InsertDescending(SortedIndices(n - 1, keys), n, keys)

SortDescending(list, keys) ==
    LET order == SortedIndices(Len(list), keys)
    IN [i \in 1..Len(list) |-> list[order[i]]]

SortByPriority(exercises) ==
    SortDescending(exercises, [i \in 1..Len(exercises) |-> exercises[i].priority])

SortBySeverity(problems) ==
    SortDescending(problems, [i \in 1..Len(problems) |-> problems[i].severity])

\* the recommendation is text and is left out
generateExerciseSummary(problemAreas) ==
    LET sorted == SortBySeverity(problemAreas)
        top == slice(sorted, 0, 3)
    IN [totalIssues |-> Len(problemAreas),
        priorities |-> [i \in 1..Len(top) |->
                           [type |-> top[i].type, sound |-> top[i].sound,
                            severity |-> Round(RMul(top[i].severity, RInt(100)))]]]

RECURSIVE calculateEstimatedTime(_)
calculateEstimatedTime(exercises) ==
    IF exercises = <<>> THEN 0
    ELSE Head(exercises).estimatedTime + calculateEstimatedTime(Tail(exercises))

planNextSession(problemAreas, currentExercises) ==
    LET unaddressed == slice(problemAreas, 6, Len(problemAreas))
    IN [hasMore |-> Len(unaddressed) > 0,
        nextFocus |-> IF Len(unaddressed) > 0 THEN unaddressed[1].type ELSE "review"]

\* the sentences of a returned exercise as its caller reads them: the array
\* of the database
Resolved(database, exercise) ==
    IF exercise.sentences = <<>> THEN exercise
    ELSE LET where == exercise.sentences
         IN [exercise EXCEPT !.sentences = database[where[1]][where[2]][where[3]].sentences]

\* generateExercises: what it returns and the database it leaves;
\* generateExerciseSummary sorts problemAreas in place before planNextSession
\* reads it
generateExercises(database, phoneticAnalysis, userLevel) ==
    LET problemAreas == identifyProblemAreas(phoneticAnalysis)
        targeted == TargetedForAll(database, problemAreas, userLevel)
        exercises == SortByPriority(targeted.exercises)
        returnedExercises == slice(exercises, 0, 6)
    IN [returned |->
            [summary |-> generateExerciseSummary(problemAreas),
             exercises |-> [i \in 1..Len(returnedExercises) |->
                               Resolved(targeted.database, returnedExercises[i])],
             estimatedTime |-> calculateEstimatedTime(returnedExercises),
             nextSession |-> planNextSession(SortBySeverity(problemAreas),
                                             exercises)],
        problemAreas |-> problemAreas,
        database |-> targeted.database]

-----------------------------------------------------------------------------
(* The exercise generator on its own: generateExercises is called up to      *)
(* MaxGenerated times on one generator, each time with a phonetic analysis   *)
(* and a user level; calls records each call with the database it found.     *)

MaxGenerated == 2

GeneratorLevels == {"A1", "B1", "C1"}

PhonemeDetail(phoneme, accuracy) ==
    [phoneme |-> phoneme, accuracy |-> accuracy,
     issues |-> identifyPhonemeIssues(phoneme, accuracy)]

VowelDetails ==
    { << PhonemeDetail(<<"{">>, Rat(9, 10)) >>,
      << PhonemeDetail(<<"{">>, Rat(1, 2)) >>,
      << PhonemeDetail(<<"{">>, Rat(1, 2)), PhonemeDetail(<<"i", ":">>, Rat(3, 5)),
         PhonemeDetail(<<"e">>, Rat(2, 5)) >> }

ConsonantDetails ==
    { << PhonemeDetail(<<"s">>, Rat(9, 10)) >>,
      << PhonemeDetail(<<"T">>, Rat(1, 2)) >>,
      << PhonemeDetail(<<"T">>, Rat(3, 5)), PhonemeDetail(<<"r">>, Rat(1, 2)),
         PhonemeDetail(<<"D">>, Rat(13, 20)) >> }

SoundAnalysis(details) ==
    [accuracy |-> calculateAverageAccuracy(details), details |-> details]

DimensionAnalysis(accuracy) == [accuracy |-> accuracy, issues |-> <<>>]

PhoneticAnalyses ==
    { [overall |-> overall,
       segmental |-> [vowels |-> SoundAnalysis(vowels),
                      consonants |-> SoundAnalysis(consonants)],
       suprasegmental |-> [stress |-> DimensionAnalysis(stress),
                           rhythm |-> DimensionAnalysis(rhythm),
                           intonation |-> DimensionAnalysis(intonation)]] :
        overall \in {RInt(45), RInt(80)},
        vowels \in VowelDetails,
        consonants \in ConsonantDetails,
        stress \in {Rat(2, 5), RInt(1)},
        rhythm \in {Rat(11, 20), Rat(9, 10)},
        intonation \in {Rat(3, 5), Rat(9, 10)} }

InitGenerator ==
    /\ ScoreIdle /\ TxIdle /\ PhonIdle /\ RepeatIdle /\ AppIdle
    /\ calls = <<>>
    /\ exerciseDatabase = initializeExerciseDatabase

GenerateExercises ==
    /\ Len(calls) < MaxGenerated
    /\ \E phoneticAnalysis \in PhoneticAnalyses, userLevel \in GeneratorLevels :
           LET generated == generateExercises(exerciseDatabase, phoneticAnalysis, userLevel)
           IN  /\ calls' = Append(calls, [operation |-> "generateExercises",
                                          phoneticAnalysis |-> phoneticAnalysis,
                                          userLevel |-> userLevel,
                                          database |-> exerciseDatabase,
                                          returned |-> generated.returned])
               /\ exerciseDatabase' = generated.database
    /\ UNCHANGED <<scoreVars, txVars, phonVars, repeatVars, app, audioRecorder, recordings,
                   timers, initializing, stops, storage, adaptiveTesting>>

NextGenerator == GenerateExercises

SpecGenerator == InitGenerator /\ [][NextGenerator]_vars

-----------------------------------------------------------------------------
(* analyzeStress on its own: one call on a text of up to MaxStressWords      *)
(* words, with every outcome of the draws simulateStressDetection takes      *)

MaxStressWords == 2

\* a word of each length predictWordStress tells apart: "I", "read", "reading"
StressWords ==
    { <<"I">>, <<"r", "e", "a", "d">>, <<"r", "e", "a", "d", "i", "n", "g">> }

StressTexts == SeqsUpTo(StressWords, MaxStressWords)

CallAnalyzeStress ==
    /\ calls = <<>>
    /\ \E features \in {ClearFeatures, QuietFeatures}, text \in StressTexts :
         \E stream \in Streams(analyzeStressDraws(text)) :
           calls' = <<[operation |-> "analyzeStress", text |-> text,
                       energy |-> features.energy.rms,
                       returned |-> analyzeStress(text, stream)]>>
    /\ UNCHANGED callFrame

NextStress == CallAnalyzeStress

SpecStress == InitHelpers /\ [][NextStress]_vars

-----------------------------------------------------------------------------
(* The three scorers called twice on the same arguments *)

\* segments as segmentPhonetically returns them
RepeatSegments ==
    {segmentPhonetically(features, text, stream) :
        features \in {ClearFeatures, QuietFeatures, getFallbackFeatures},
        text \in PhonTexts \ {NoText},
        stream \in {[i \in 1..2 |-> RInt(0)], [i \in 1..2 |-> Rat(9, 10)]}}

RepeatCalls ==
    [scorer : {"analyzeSegmentals"}, segments : RepeatSegments, level : PhonLevels]
    \cup [scorer : {"analyzeSuprasegmentals"},
          features : {QuietFeatures, getFallbackFeatures},
          text : PhonTexts \ {NoText}, level : {"A1"}]
    \cup [scorer : {"calculateScore"},
          analysisData : [accuracy : {Rat(2, 5), Rat(9, 10)},
                          transcription : {NoText, TheCatSat},
                          expectedText : {TheCatSat},
                          isOffline : BOOLEAN],
          duration : {RInt(3), RInt(5)},
          idealDuration : {RInt(5)}]

InitRepeat ==
    /\ ScoreIdle
    /\ TxIdle
    /\ PhonIdle
    /\ AppIdle
    /\ CallsIdle
    /\ GeneratorIdle
    /\ rpIn \in RepeatCalls
    /\ rpOut = <<>>

\* a first or a second call of analyzeSegmentals(segments, level)
RepeatAnalyzeSegmentals ==
    /\ rpIn.scorer = "analyzeSegmentals"
    /\ Len(rpOut) <= 1
    /\ \E stream \in Streams(analyzeSegmentalsDraws(rpIn.segments)) :
          rpOut' = Append(rpOut, analyzeSegmentals(rpIn.segments, rpIn.level, stream))
    /\ UNCHANGED <<rpIn, scoreVars, txVars, phonVars, appVars, calls, exerciseDatabase>>

\* a first or a second call of analyzeSuprasegmentals(features, text, level)
RepeatAnalyzeSuprasegmentals ==
    /\ rpIn.scorer = "analyzeSuprasegmentals"
    /\ Len(rpOut) <= 1
    /\ \E stream \in Streams(analyzeSuprasegmentalsDraws(rpIn.text)) :
          rpOut' = Append(rpOut, analyzeSuprasegmentals(rpIn.features, rpIn.text,
                                                        rpIn.level, stream))
    /\ UNCHANGED <<rpIn, scoreVars, txVars, phonVars, appVars, calls, exerciseDatabase>>

\* a first or a second call of calculateScore(analysisData, duration, idealDuration)
RepeatCalculateScore ==
    /\ rpIn.scorer = "calculateScore"
    /\ Len(rpOut) <= 1
    /\ rpOut' = Append(rpOut, calculateScore(rpIn.analysisData, rpIn.duration,
                                             rpIn.idealDuration))
    /\ UNCHANGED <<rpIn, scoreVars, txVars, phonVars, appVars, calls, exerciseDatabase>>

NextRepeat ==
    \/ RepeatAnalyzeSegmentals
    \/ RepeatAnalyzeSuprasegmentals
    \/ RepeatCalculateScore

SpecRepeat == InitRepeat /\ [][NextRepeat]_vars

-----------------------------------------------------------------------------
(* The application: recordings started and stopped by the user and by the   *)
(* auto-stop timer, and the stopRecording invocations advancing from await  *)
(* to await.  The elements of the page that the handlers look up by id are  *)
(* taken to be present, and localStorage to accept every write.             *)

\* recordings the user starts
MaxRecordings == 2

\* what a recording can resolve to: blob and measured duration in seconds
Takes ==
    { \* stopped in the millisecond it was started, before any chunk
      [blob |-> UndecodableBlob, duration |-> RInt(0)],
      \* silence
      [blob |-> AudioBlob(RInt(0), RInt(0)), duration |-> RInt(3)],
      \* a murmur of -50 dB
      [blob |-> AudioBlob(Rat(3, 1000), RInt(150)), duration |-> RInt(3)],
      \* speech
      [blob |-> AudioBlob(Rat(1, 10), RInt(150)), duration |-> RInt(3)],
      \* a blob decodeAudioData rejects
      [blob |-> UndecodableBlob, duration |-> RInt(2)] }

\* what the recogniser makes of a read sentence: all of it or its first word
Heard(text) == {text, SubSeq(text, 1, 1)}

\* what the network does to the request of one stopRecording invocation
NetworkOutcomes(text) ==
    {[kind |-> "networkError", data |-> NoData]}
    \cup {transcribe(transcription, text) : transcription \in Heard(text)}

\* an assessment found in the stored settings: two attempts at A1 made
StoredAssessment ==
    [startPlacementTest EXCEPT !.currentSentenceIndex = 2,
                               !.levelAttempts["A1"] = 2,
                               !.levelScores["A1"] = <<60, 60>>]

NoAudioData == [blob |-> UndecodableBlob, duration |-> NoNum]
NoSentence == [idealDuration |-> 0, text |-> <<>>]
NoAnalysisData ==
    [accuracy |-> NoNum, transcription |-> NoText, expectedText |-> NoText,
     isOffline |-> FALSE]

\* the frame of a stopRecording invocation at its first await.  called, shown
\* and saved record what the invocation has done: the methods it called, the
\* notifications it showed and the ids of the results it saved.
NewFrame(recordingPromise) ==
    [recordingPromise |-> recordingPromise, pc |-> "awaitRecordingPromise",
     audioData |-> NoAudioData, isSilent |-> FALSE,
     level |-> "", sentence |-> NoSentence,
     analysisData |-> NoAnalysisData, phoneticAnalysisData |-> "null",
     scores |-> <<>>,
     called |-> {}, shown |-> {}, saved |-> {}]

\* the state after the constructor and initializeApp(): renderTestArea() takes
\* the position of a stored assessment, and throws on a new one
InitApp ==
    /\ ScoreIdle
    /\ TxIdle
    /\ PhonIdle
    /\ RepeatIdle
    /\ GeneratorIdle
    /\ CallsIdle
    /\ \E saved \in {<<>>, <<StoredAssessment>>} :
         LET assessment == initializeAssessment(saved)
             constructed == [isRecording |-> FALSE, autoStopTimer |-> 0,
                             recordingPromise |-> 0,
                             currentLevel |-> "A1", currentSentenceIndex |-> 0,
                             placementCompleted |-> hasCompletedPlacement(assessment),
                             testMode |-> "placement"]
             rendered == renderTestArea(constructed, assessment)
         IN  /\ app = rendered.app
             /\ adaptiveTesting = [currentAssessment |-> rendered.assessment]
             /\ storage = [results |-> <<>>, currentAssessment |-> saved]
    /\ audioRecorder = [stream |-> FALSE, recorder |-> 0, isRecording |-> FALSE]
    /\ recordings = <<>>
    /\ timers = [autoStop |-> {}, refresh |-> 0]
    /\ initializing = 0
    /\ stops = <<>>

standaloneVars == <<scoreVars, txVars, phonVars, repeatVars, calls, exerciseDatabase>>

\* startRecording() from "Start recording" on: audioRecorder.startRecording()
\* creates a MediaRecorder, and the auto-stop timer of the recording is set
BeginRecording ==
    LET id == Len(recordings) + 1
        \* the sentence the callback of the auto-stop timer holds
        sentence == CEFR_LEVELS[app.currentLevel].sentences[app.currentSentenceIndex + 1]
    IN  /\ recordings' = Append(recordings, [state |-> "recording",
                                             audioData |-> NoAudioData,
                                             sentence |-> sentence])
        /\ audioRecorder' = [stream |-> TRUE, recorder |-> id, isRecording |-> TRUE]
        /\ app' = [app EXCEPT !.recordingPromise = id, !.isRecording = TRUE,
                              !.autoStopTimer = id]
        /\ timers' = [timers EXCEPT !.autoStop = @ \cup {id}]

\* startRecording() with the microphone stream at hand
StartRecording ==
    /\ ~app.isRecording
    /\ audioRecorder.stream
    /\ Len(recordings) + initializing < MaxRecordings
    /\ BeginRecording
    /\ UNCHANGED <<initializing, stops, storage, adaptiveTesting, standaloneVars>>

\* startRecording() without a stream: up to await this.audioRecorder.initialize()
StartRecordingAwaitInitialize ==
    /\ ~app.isRecording
    /\ ~audioRecorder.stream
    /\ Len(recordings) + initializing < MaxRecordings
    /\ initializing' = initializing + 1
    /\ UNCHANGED <<app, audioRecorder, recordings, timers, stops, storage,
                   adaptiveTesting, standaloneVars>>

\* getUserMedia resolves: initialize() keeps the stream and startRecording() goes on
InitializeResolved ==
    /\ initializing > 0
    /\ initializing' = initializing - 1
    /\ BeginRecording
    /\ UNCHANGED <<stops, storage, adaptiveTesting, standaloneVars>>

\* getUserMedia rejects: initialize() throws and startRecording() catches
InitializeRejected ==
    /\ initializing > 0
    /\ initializing' = initializing - 1
    /\ app' = [app EXCEPT !.isRecording = FALSE]
    /\ UNCHANGED <<audioRecorder, recordings, timers, stops, storage,
                   adaptiveTesting, standaloneVars>>

\* stopRecording() up to await this.recordingPromise, with the auto-stop
\* timers in pending left to run.  stop() of a recorder that is not recording
\* starts nothing.
EnterStopRecording(pending) ==
    LET recorder == audioRecorder.recorder
    IN  /\ app' = [app EXCEPT !.isRecording = FALSE, !.autoStopTimer = 0]
        /\ timers' = [timers EXCEPT !.autoStop = pending \ {app.autoStopTimer}]
        /\ recordings' =
               IF recorder # 0 /\ audioRecorder.isRecording
                  /\ recordings[recorder].state = "recording"
               THEN [recordings EXCEPT ![recorder].state = "stopping"]
               ELSE recordings
        /\ stops' = Append(stops, NewFrame(app.recordingPromise))

\* the stop button, or the space bar while recording
StopRecording ==
    /\ app.isRecording
    /\ EnterStopRecording(timers.autoStop)
    /\ UNCHANGED <<audioRecorder, initializing, storage, adaptiveTesting, standaloneVars>>

\* the callback of an auto-stop timer
AutoStopTimer ==
    \E timer \in timers.autoStop :
        /\ IF app.isRecording
           THEN EnterStopRecording(timers.autoStop \ {timer})
           ELSE /\ timers' = [timers EXCEPT !.autoStop = @ \ {timer}]
                /\ UNCHANGED <<app, recordings, stops>>
        /\ UNCHANGED <<audioRecorder, initializing, storage, adaptiveTesting,
                       standaloneVars>>

\* recorder.onstop: the promise of the recording resolves
MediaRecorderOnStop ==
    \E recorder \in 1..Len(recordings) :
        /\ recordings[recorder].state = "stopping"
        /\ \E audioData \in Takes :
               recordings' = [recordings EXCEPT ![recorder] =
                                  [@ EXCEPT !.state = "stopped", !.audioData = audioData]]
        /\ audioRecorder' = [audioRecorder EXCEPT !.isRecording = FALSE]
        /\ UNCHANGED <<app, timers, initializing, stops, storage, adaptiveTesting,
                       standaloneVars>>

\* stopRecording() from the resolved recordingPromise to the await in detectSilence()
ResumeWithAudioData ==
    \E f \in 1..Len(stops) :
        LET frame == stops[f]
            recording == recordings[frame.recordingPromise]
        IN  /\ frame.pc = "awaitRecordingPromise"
            /\ recording.state = "stopped"
            /\ stops' = [stops EXCEPT ![f] =
                   IF FalsyNum(recording.audioData.duration)
                   THEN [frame EXCEPT !.audioData = recording.audioData,
                                      !.shown = @ \cup {"Failed to analyze recording"},
                                      !.pc = "returned"]
                   ELSE [frame EXCEPT !.audioData = recording.audioData,
                                      !.called = @ \cup {"detectSilence"},
                                      !.pc = "awaitDetectSilence"]]
            /\ UNCHANGED <<app, audioRecorder, recordings, timers, initializing,
                           storage, adaptiveTesting, standaloneVars>>

\* stopRecording() from the result of detectSilence() to the await of
\* convertToBase64() and transcribeAudio(): the early return on silence, else
\* the sentence the application is at
ResumeAfterDetectSilence ==
    \E f \in 1..Len(stops) :
        LET frame == stops[f]
            isSilent == detectSilence(frame.audioData.blob)
            sentence == CEFR_LEVELS[app.currentLevel].sentences[app.currentSentenceIndex + 1]
        IN  /\ frame.pc = "awaitDetectSilence"
            /\ stops' = [stops EXCEPT ![f] =
                   IF isSilent
                   THEN [frame EXCEPT !.isSilent = TRUE,
                                      !.shown = @ \cup {"No speech detected"},
                                      !.pc = "returned"]
                   ELSE [frame EXCEPT !.level = app.currentLevel,
                                      !.sentence = sentence,
                                      !.called = @ \cup {"transcribeAudio"},
                                      !.pc = "awaitTranscribeAudio"]]
            /\ UNCHANGED <<app, audioRecorder, recordings, timers, initializing,
                           storage, adaptiveTesting, standaloneVars>>

\* stopRecording() without its inner try: a failure of transcribeAudio() lands
\* in the outer catch
TranscribeAudioSettled_uncaught(frame, settled) ==
    IF settled.status = "returned"
    THEN [frame EXCEPT !.analysisData = settled.data,
                       !.called = @ \cup {"analyzePhonetics"},
                       !.pc = "awaitAnalyzePhonetics"]
    ELSE [frame EXCEPT !.shown = @ \cup {"Failed to analyze recording"},
                       !.pc = "returned"]

\* the frame after transcribeAudio() settled: its data, or the catch that
\* calls getMockAnalysis()
TranscribeAudioSettled(frame, settled) ==
    IF settled.status = "returned"
    THEN [frame EXCEPT !.analysisData = settled.data,
                       !.called = @ \cup {"analyzePhonetics"},
                       !.pc = "awaitAnalyzePhonetics"]
    ELSE [frame EXCEPT !.called = @ \cup {"getMockAnalysis"},
                       !.pc = "awaitGetMockAnalysis"]

\* stopRecording() from the settled transcribeAudio() to its next await
ResumeAfterTranscribeAudio ==
    \E f \in 1..Len(stops) :
        /\ stops[f].pc = "awaitTranscribeAudio"
        /\ \E response \in NetworkOutcomes(stops[f].sentence.text) :
               stops' = [stops EXCEPT ![f] =
                   TranscribeAudioSettled(
                       @, transcribeAudio([k \in 1..(retryAttempts + 1) |-> response], 0))]
        /\ UNCHANGED <<app, audioRecorder, recordings, timers, initializing,
                       storage, adaptiveTesting, standaloneVars>>

\* getMockAnalysis() returns
ResumeAfterGetMockAnalysis ==
    \E f \in 1..Len(stops) :
        LET frame == stops[f]
        IN  /\ frame.pc = "awaitGetMockAnalysis"
            /\ \E stream \in Streams(2) :
                   stops' = [stops EXCEPT ![f] =
                       [frame EXCEPT
                           !.analysisData =
                               getMockAnalysis(frame.audioData.duration,
                                               RInt(frame.sentence.idealDuration),
                                               frame.sentence.text,
                                               frame.audioData.blob, stream),
                           !.shown = @ \cup {"Using offline analysis due to connection issues"},
                           !.called = @ \cup {"analyzePhonetics"},
                           !.pc = "awaitAnalyzePhonetics"]]
            /\ UNCHANGED <<app, audioRecorder, recordings, timers, initializing,
                           storage, adaptiveTesting, standaloneVars>>

\* processPlacementResult(analysisData, duration, sentence) in the frame of
\* stopRecording(); id is the id generateId() gives the saved result
\* (the modal that showPlacementComplete() opens two seconds after the last
\* result changes no field and is left out)
ProcessPlacementResult(f, phoneticAnalysisData, id) ==
    LET frame == stops[f]
        scores == calculateScore(frame.analysisData, frame.audioData.duration,
                                 RInt(frame.sentence.idealDuration))
        testResult == [level |-> app.currentLevel, sentence |-> frame.sentence.text,
                       scores |-> scores, grade |-> scores.grade,
                       duration |-> frame.audioData.duration,
                       idealDuration |-> frame.sentence.idealDuration,
                       isOffline |-> frame.analysisData.isOffline]
        processed == processTestResult(adaptiveTesting.currentAssessment, testResult)
        done == [frame EXCEPT
                    !.phoneticAnalysisData = phoneticAnalysisData,
                    !.scores = scores,
                    !.called = @ \cup {"calculateScore", "saveTestResult",
                                       "processTestResult"},
                    !.saved = @ \cup {id},
                    !.pc = "returned"]
    IN  IF processed.thrown
        THEN \* the TypeError of processTestResult() lands in the catch of stopRecording()
             /\ storage' = [storage EXCEPT
                               !.results = saveTestResult(@, testResult, id)]
             /\ stops' = [stops EXCEPT ![f] =
                             [done EXCEPT !.shown = @ \cup {"Failed to analyze recording"}]]
             /\ UNCHANGED <<app, timers, adaptiveTesting>>
        ELSE /\ storage' = [results |-> saveTestResult(storage.results, testResult, id),
                            currentAssessment |-> <<processed.assessment>>]
             /\ adaptiveTesting' = [currentAssessment |-> processed.assessment]
             /\ stops' = [stops EXCEPT ![f] = done]
             /\ IF processed.decision.action = "complete_assessment"
                THEN /\ app' = [app EXCEPT !.placementCompleted = TRUE]
                     /\ UNCHANGED timers
                ELSE /\ timers' = [timers EXCEPT !.refresh = @ + 1]
                     /\ UNCHANGED app

\* renderResults(analysisData, duration, sentence) in the frame of stopRecording()
RenderResults(f, phoneticAnalysisData, id) ==
    LET frame == stops[f]
        scores == calculateScore(frame.analysisData, frame.audioData.duration,
                                 RInt(frame.sentence.idealDuration))
        testResult == [level |-> app.currentLevel, sentence |-> frame.sentence.text,
                       scores |-> scores, grade |-> scores.grade,
                       duration |-> frame.audioData.duration,
                       idealDuration |-> frame.sentence.idealDuration,
                       isOffline |-> frame.analysisData.isOffline]
    IN  /\ storage' = [storage EXCEPT !.results = saveTestResult(@, testResult, id)]
        /\ stops' = [stops EXCEPT ![f] =
               [frame EXCEPT !.phoneticAnalysisData = phoneticAnalysisData,
                             !.scores = scores,
                             !.called = @ \cup {"calculateScore", "saveTestResult"},
                             !.saved = @ \cup {id},
                             !.pc = "returned"]]
        /\ UNCHANGED <<app, timers, adaptiveTesting>>

\* the results saved so far, which stands for the clock and the random
\* number generateId() builds its ids from
SavedSoFar ==
    LET RECURSIVE Count(_)
        Count(f) == IF f = 0 THEN 0 ELSE Cardinality(stops[f].saved) + Count(f - 1)
    IN  Count(Len(stops))

\* analyzePhonetics() settles: stopRecording() to its end.  The analysis is
\* attached to analysisData and rendered, and does not enter the score; after
\* a rejection, which is caught and logged, phoneticAnalysisData stays null.
ResumeAfterAnalyzePhonetics ==
    \E f \in 1..Len(stops) :
        /\ stops[f].pc = "awaitAnalyzePhonetics"
        /\ \E phoneticAnalysisData \in {"analysis", "null"} :
               IF ~app.placementCompleted
               THEN ProcessPlacementResult(f, phoneticAnalysisData, SavedSoFar + 1)
               ELSE RenderResults(f, phoneticAnalysisData, SavedSoFar + 1)
        /\ UNCHANGED <<audioRecorder, recordings, initializing, standaloneVars>>

\* the timer renderPlacementResults() sets: renderPlacementInfo() and
\* renderTestArea(), one second after a result that goes on with the placement
RefreshTimer ==
    /\ timers.refresh > 0
    /\ timers' = [timers EXCEPT !.refresh = @ - 1]
    /\ LET rendered == renderTestArea(app, adaptiveTesting.currentAssessment)
       IN  /\ app' = rendered.app
           /\ adaptiveTesting' = [currentAssessment |-> rendered.assessment]
           /\ storage' = IF rendered.saved
                         THEN [storage EXCEPT !.currentAssessment = <<rendered.assessment>>]
                         ELSE storage
    /\ UNCHANGED <<audioRecorder, recordings, initializing, stops, standaloneVars>>

NextApp ==
    \/ StartRecording
    \/ StartRecordingAwaitInitialize
    \/ InitializeResolved
    \/ InitializeRejected
    \/ StopRecording
    \/ AutoStopTimer
    \/ MediaRecorderOnStop
    \/ ResumeWithAudioData
    \/ ResumeAfterDetectSilence
    \/ ResumeAfterTranscribeAudio
    \/ ResumeAfterGetMockAnalysis
    \/ ResumeAfterAnalyzePhonetics
    \/ RefreshTimer

SpecApp == InitApp /\ [][NextApp]_vars

-----------------------------------------------------------------------------
(* Custom text upload in the application: loadCustomText next to the         *)
(* recording pipeline, followed until it returns                             *)

\* the text of an uploaded file, character by character: "Hi. Ok!"
ShortFile == <<"H", "i", ".", " ", "O", "k", "!">>

\* "The cat sat on the mat.\nDogs bark loudly at night! Hm?"
TwoSentenceFile ==
    <<"T", "h", "e", " ", "c", "a", "t", " ", "s", "a", "t", " ", "o", "n", " ", "t",
      "h", "e", " ", "m", "a", "t", ".", "\n", "D", "o", "g", "s", " ", "b", "a", "r",
      "k", " ", "l", "o", "u", "d", "l", "y", " ", "a", "t", " ", "n", "i", "g", "h",
      "t", "!", " ", "H", "m", "?">>

\* "Is it?  It is a very long day. ok"
OneSentenceFile ==
    <<"I", "s", " ", "i", "t", "?", " ", " ", "I", "t", " ", "i", "s", " ", "a", " ",
      "v", "e", "r", "y", " ", "l", "o", "n", "g", " ", "d", "a", "y", ".", " ", "o",
      "k">>

UploadedFiles == {ShortFile, TwoSentenceFile, OneSentenceFile}

\* text.split(/[.!?]+/)
RECURSIVE SplitSentences(_)
SplitSentences(text) ==
    LET Terminators == {".", "!", "?"}
        ends == {i \in 1..Len(text) : text[i] \in Terminators}
    IN  IF ends = {} THEN <<text>>
        ELSE LET i == CHOOSE k \in ends : \A m \in ends : k <= m
                 rest == {k \in (i + 1)..Len(text) : text[k] \notin Terminators}
                 j == IF rest = {} THEN Len(text) + 1
                      ELSE CHOOSE k \in rest : \A m \in rest : k <= m
             IN <<SubSeq(text, 1, i - 1)>> \o SplitSentences(SubSeq(text, j, Len(text)))

\* s.trim()
trim(s) ==
    LET kept == {i \in 1..Len(s) : s[i] \notin {" ", "\n"}}
    IN  IF kept = {} THEN <<>>
        ELSE SubSeq(s, CHOOSE k \in kept : \A m \in kept : k <= m,
                       CHOOSE k \in kept : \A m \in kept : m <= k)

\* parseCustomText(text): the trimmed pieces longer than 10 characters, each
\* with idealDuration max(3, min(15, 0.6 * text.split(' ').length)), ten at most
parseCustomText(text) ==
    LET pieces == SplitSentences(text)
        trimmed == [i \in 1..Len(pieces) |-> trim(pieces[i])]
        LongEnough(s) == Len(s) > 10
        kept == SelectSeq(trimmed, LongEnough)
        sentences ==
            [i \in 1..Len(kept) |->
                [text |-> kept[i],
                 idealDuration |->
                    RMax(RInt(3),
                         RMin(RInt(15),
                              RMul(RInt(Cardinality({k \in 1..Len(kept[i]) : kept[i][k] = " "}) + 1),
                                   Rat(6, 10))))]]
    IN  IF Len(sentences) > 10 THEN SubSeq(sentences, 1, 10) ELSE sentences

\* getAssignedLevel()
getAssignedLevel(assessment) ==
    IF hasCompletedPlacement(assessment) THEN assessment.assignedLevel ELSE "null"

\* levels.indexOf(level): -1 for what is no CEFR level
indexOf(level) ==
    IF \E i \in 1..Len(levels) : levels[i] = level
    THEN (CHOOSE i \in 1..Len(levels) : levels[i] = level) - 1
    ELSE 0 - 1

\* selectLevel(level): the fields of the application after the call
selectLevel(application, assessment, level) ==
    LET assignedLevelIndex == indexOf(getAssignedLevel(assessment))
        selectedLevelIndex == indexOf(level)
    IN  IF application.isRecording THEN application
        ELSE IF ~application.placementCompleted THEN application
        ELSE IF selectedLevelIndex > assignedLevelIndex + 1 THEN application
        ELSE IF selectedLevelIndex < assignedLevelIndex THEN application
        ELSE [application EXCEPT !.currentLevel = level,
                                 !.currentSentenceIndex = 0,
                                 !.testMode = "practice"]

\* loadCustomText(file) has returned
UploadReturned == calls # <<>> /\ calls[1].pc = "returned"

\* the handlers of the recording pipeline, while loadCustomText has not returned
PipelineStep == ~UploadReturned /\ NextApp

\* loadCustomText(file) up to await file.text()
LoadCustomText ==
    /\ calls = <<>>
    /\ \E file \in UploadedFiles :
           calls' = <<[operation |-> "loadCustomText", file |-> file, pc |-> "file.text",
                       CUSTOM |-> <<>>, shown |-> ""]>>
    /\ UNCHANGED <<scoreVars, txVars, phonVars, repeatVars, appVars, exerciseDatabase>>

\* file.text() resolved: the sentences are parsed, CEFR_LEVELS['CUSTOM'] is
\* written and selectLevel('CUSTOM') is called
LoadCustomTextResumed ==
    /\ calls # <<>>
    /\ calls[1].pc = "file.text"
    /\ LET sentences == parseCustomText(calls[1].file)
       IN  IF Len(sentences) = 0
           THEN /\ calls' = <<[calls[1] EXCEPT !.pc = "returned",
                                               !.shown = "No valid sentences found in the file"]>>
                /\ UNCHANGED app
           ELSE /\ calls' = <<[calls[1] EXCEPT !.pc = "returned",
                                               !.CUSTOM = sentences,
                                               !.shown = "Loaded sentences from your file"]>>
                /\ app' = selectLevel(app, adaptiveTesting.currentAssessment, "CUSTOM")
    /\ UNCHANGED <<scoreVars, txVars, phonVars, repeatVars, audioRecorder, recordings, timers,
                   initializing, stops, storage, adaptiveTesting, exerciseDatabase>>

\* file.text() rejected: the catch of loadCustomText
LoadCustomTextRejected ==
    /\ calls # <<>>
    /\ calls[1].pc = "file.text"
    /\ calls' = <<[calls[1] EXCEPT !.pc = "returned", !.shown = "Failed to load text file"]>>
    /\ UNCHANGED <<scoreVars, txVars, phonVars, repeatVars, appVars, exerciseDatabase>>

NextUpload ==
    \/ PipelineStep
    \/ LoadCustomText
    \/ LoadCustomTextResumed
    \/ LoadCustomTextRejected

SpecUpload == InitApp /\ [][NextUpload]_vars

-----------------------------------------------------------------------------
(* Level selection in the application: selectLevel called once, in any      *)
(* state the recording pipeline reaches                                      *)

\* the level names selectLevel is called with
SelectedLevels == {"A1", "A2", "B1", "C2", "CUSTOM"}

\* selectLevel(level); it has no await, so it runs to its return in one step
SelectLevel ==
    /\ calls = <<>>
    /\ \E level \in SelectedLevels :
           LET selected == selectLevel(app, adaptiveTesting.currentAssessment, level)
           IN  /\ app' = selected
               /\ calls' = <<[operation |-> "selectLevel", level |-> level, pc |-> "returned",
                              before |-> app,
                              assignedLevel |->
                                  getAssignedLevel(adaptiveTesting.currentAssessment)]>>
    /\ UNCHANGED <<scoreVars, txVars, phonVars, repeatVars, audioRecorder, recordings, timers,
                   initializing, stops, storage, adaptiveTesting, exerciseDatabase>>

NextSelect == PipelineStep \/ SelectLevel

SpecSelect == InitApp /\ [][NextSelect]_vars

-----------------------------------------------------------------------------
(* Navigation next to the recording pipeline: nextSentence (the Next button  *)
(* and Ctrl+N) and selectLevel, called up to MaxNavigations times while an   *)
(* invocation of stopRecording is suspended at one of its awaits             *)

MaxNavigations == 1

\* nextSentence(): the index moves on, or back to 0 after the last sentence of
\* the level, and renderTestArea() follows; when that throws, the index stays
\* moved
nextSentence(application, assessment) ==
    LET levelData == CEFR_LEVELS[application.currentLevel]
        moved == IF application.currentSentenceIndex < Len(levelData.sentences) - 1
                 THEN [application EXCEPT !.currentSentenceIndex = @ + 1]
                 ELSE [application EXCEPT !.currentSentenceIndex = 0]
    IN renderTestArea(moved, assessment)

\* some invocation of stopRecording has not returned
StopSuspended == \E f \in 1..Len(stops) : stops[f].pc # "returned"

NextSentence ==
    /\ Len(calls) < MaxNavigations
    /\ StopSuspended
    /\ LET rendered == nextSentence(app, adaptiveTesting.currentAssessment)
       IN  /\ app' = rendered.app
           /\ adaptiveTesting' = [currentAssessment |-> rendered.assessment]
           /\ storage' = IF rendered.saved
                         THEN [storage EXCEPT !.currentAssessment = <<rendered.assessment>>]
                         ELSE storage
           /\ calls' = Append(calls, [operation |-> "nextSentence", thrown |-> rendered.thrown])
    /\ UNCHANGED <<scoreVars, txVars, phonVars, repeatVars, audioRecorder, recordings, timers,
                   initializing, stops, exerciseDatabase>>

\* selectLevel(level) for a level of CEFR_LEVELS
SelectCefrLevel ==
    /\ Len(calls) < MaxNavigations
    /\ StopSuspended
    /\ \E level \in {"A1", "A2", "B1"} :
           /\ app' = selectLevel(app, adaptiveTesting.currentAssessment, level)
           /\ calls' = Append(calls, [operation |-> "selectLevel", thrown |-> FALSE])
    /\ UNCHANGED <<scoreVars, txVars, phonVars, repeatVars, audioRecorder, recordings, timers,
                   initializing, stops, storage, adaptiveTesting, exerciseDatabase>>

NextNavigate == NextApp \/ NextSentence \/ SelectCefrLevel

SpecNavigate == InitApp /\ [][NextNavigate]_vars

-----------------------------------------------------------------------------
(* Claims about the recording pipeline of the application *)

\* the stopRecording invocations made so far
Invocations == 1..Len(stops)

\* the thresholds of silence: RMS below 0.001 or level below -45 dB
BelowThresholds(audioBlob) ==
    /\ audioBlob.decoded = "AudioBuffer"
    /\ RLt(audioBlob.rms, Rat(1, 1000)) \/ BelowSilenceThreshold(audioBlob.rms)

\* the invocation got past the check of the audio data and the await of detectSilence()
PastDetectSilence(frame) ==
    /\ frame.pc \notin {"awaitRecordingPromise", "awaitDetectSilence"}
    /\ ~FalsyNum(frame.audioData.duration)

\* C3: a stopRecording invocation whose recording is silent (RMS < 0.001 or
\* below -45 dB, an all-zero buffer included) returns right after
\* detectSilence: it has called none of transcribeAudio, getMockAnalysis,
\* analyzePhonetics, calculateScore, saveTestResult and processTestResult, has
\* saved nothing and has shown 'No speech detected' only; and the step that
\* returns leaves the stored history, the stored settings and the assessment
\* of the engine as they were.
C3_SilenceShortCircuits ==
    /\ [](\A f \in Invocations :
            PastDetectSilence(stops[f]) /\ BelowThresholds(stops[f].audioData.blob)
            => /\ stops[f].pc = "returned"
               /\ stops[f].called = {"detectSilence"}
               /\ stops[f].saved = {}
               /\ stops[f].shown = {"No speech detected"})
    /\ [][\A f \in Invocations :
            /\ stops[f].pc = "awaitDetectSilence"
            /\ BelowThresholds(stops[f].audioData.blob)
            /\ stops'[f].pc # "awaitDetectSilence"
            => storage' = storage /\ adaptiveTesting' = adaptiveTesting]_vars

\* C3 witness: a recording of -50 dB, silent by the dB threshold alone, was
\* stopped and its invocation has returned
C3_Witness ==
    \E f \in Invocations :
        /\ stops[f].pc = "returned"
        /\ stops[f].isSilent
        /\ stops[f].audioData.blob.rms = Rat(3, 1000)

\* the invocation is between the silence check and its end
InAnalysis(frame) ==
    frame.pc \in {"awaitTranscribeAudio", "awaitGetMockAnalysis", "awaitAnalyzePhonetics"}

\* C5: no two stopRecording invocations are in their analysis sections at the
\* same time
C5_OnePipelineInFlight ==
    \A f, g \in Invocations : InAnalysis(stops[f]) /\ InAnalysis(stops[g]) => f = g

\* C7: a stopRecording invocation that has returned for a recording with valid
\* audio data which detectSilence did not report silent has scored the attempt
\* and saved exactly one result, which is in the stored history, whether
\* transcribeAudio returned or threw and whether analyzePhonetics returned or
\* threw
C7_FailuresStillSaved ==
    \A f \in Invocations :
        /\ stops[f].pc = "returned"
        /\ ~FalsyNum(stops[f].audioData.duration)
        /\ ~stops[f].isSilent
        => /\ "calculateScore" \in stops[f].called
           /\ Cardinality(stops[f].saved) = 1
           /\ \A id \in stops[f].saved :
                  Cardinality({i \in 1..Len(storage.results) :
                                  storage.results[i].id = id}) = 1

\* C7 witness: an invocation has returned and saved its result after both
\* transcribeAudio and analyzePhonetics threw
C7_Witness ==
    \E f \in Invocations :
        /\ stops[f].pc = "returned"
        /\ "getMockAnalysis" \in stops[f].called
        /\ stops[f].phoneticAnalysisData = "null"
        /\ Cardinality(stops[f].saved) = 1

\* C10: an attempt scored with a transcription present has the completeness
\* min(1, transcribed words / expected words) against the sentence read,
\* online and offline
C10_CompletenessFromTranscription ==
    \A f \in Invocations :
        /\ "calculateScore" \in stops[f].called
        /\ ~FalsyText(stops[f].analysisData.transcription)
        => stops[f].scores.individual.completeness
               = RMin(RInt(1), Rat(Len(getWords(stops[f].analysisData.transcription)),
                                   Len(getWords(stops[f].sentence.text))))

-----------------------------------------------------------------------------
(* Claims about the phonetic analysis engine *)

\* analyzePhonetics has returned for a recording that could not be decoded
DecodeFailedAndReturned ==
    /\ phFrame # <<>>
    /\ phFrame.pc = "returned"
    /\ phFrame.audioData.decoded = DecodeError

\* the accuracies of the five scored dimensions of a returned analysis
DimensionAccuracies(result) ==
    <<result.segmental.vowels.accuracy, result.segmental.consonants.accuracy,
      result.suprasegmental.stress.accuracy, result.suprasegmental.rhythm.accuracy,
      result.suprasegmental.intonation.accuracy>>

\* C14: every scored dimension (vowels, consonants, stress, rhythm,
\* intonation) with accuracy > 0.8 contributes one entry to strengths, and
\* every one with accuracy < 0.7 contributes one entry to improvements and one
\* to specificTips.
C14_SameRuleForEveryDimension ==
    (phFrame # <<>> /\ phFrame.pc = "returned" /\ ~phFrame.result.isBasicAnalysis) =>
        LET accuracies == DimensionAccuracies(phFrame.result)
            strong == {d \in 1..5 : RLt(Rat(8, 10), accuracies[d])}
            weak == {d \in 1..5 : RLt(accuracies[d], Rat(7, 10))}
            feedback == phFrame.result.feedback
        IN  /\ Len(feedback.strengths) = Cardinality(strong)
            /\ Len(feedback.improvements) = Cardinality(weak)
            /\ Len(feedback.specificTips) = Cardinality(weak)

\* C4: when decoding the audio fails inside extractAcousticFeatures,
\* analyzePhonetics returns isBasicAnalysis = true with the fixed defaults of
\* getFallbackAnalysis (overall 75, vowels 0.75, consonants 0.76, stress 0.7,
\* rhythm 0.75, intonation 0.73), never values computed from fallback features.
C4_DecodeErrorGivesBasicAnalysis ==
    DecodeFailedAndReturned =>
        /\ phFrame.result.isBasicAnalysis
        /\ phFrame.result.overall = RInt(75)
        /\ phFrame.result.segmental.vowels.accuracy = Rat(75, 100)
        /\ phFrame.result.segmental.consonants.accuracy = Rat(76, 100)
        /\ phFrame.result.suprasegmental.stress.accuracy = Rat(7, 10)
        /\ phFrame.result.suprasegmental.rhythm.accuracy = Rat(75, 100)
        /\ phFrame.result.suprasegmental.intonation.accuracy = Rat(73, 100)

\* C8: repeated calls of analyzeSegmentals, of analyzeSuprasegmentals and of
\* calculateScore on identical arguments return identical outputs.
C8_RepeatedCallsAgree ==
    \A i, j \in 1..Len(rpOut) : rpOut[i] = rpOut[j]

-----------------------------------------------------------------------------
(* Claims about the scoring engine, checked under SpecScore *)

\* the arguments of the fixture: accuracy 0.9, 5 s read in an ideal 5 s,
\* transcription = expectedText = "the cat sat", online
FixtureInput ==
    [analysisData |-> [accuracy |-> Rat(9, 10),
                       transcription |-> TheCatSat,
                       expectedText |-> TheCatSat,
                       isOffline |-> FALSE],
     duration |-> RInt(5),
     idealDuration |-> RInt(5)]

\* 100 x (0.4 p + 0.3 f + 0.2 c + 0.1 cl), from the sub-scores of a returned record
TenTimesWeighted(ind) ==
    Rat(10 * (4 * ind.pronunciation[1] * ind.fluency[2] * ind.completeness[2] * ind.clarity[2]
              + 3 * ind.fluency[1] * ind.pronunciation[2] * ind.completeness[2] * ind.clarity[2]
              + 2 * ind.completeness[1] * ind.pronunciation[2] * ind.fluency[2] * ind.clarity[2]
              + 1 * ind.clarity[1] * ind.pronunciation[2] * ind.fluency[2] * ind.completeness[2]),
        ind.pronunciation[2] * ind.fluency[2] * ind.completeness[2] * ind.clarity[2])

\* C1: every record returned by calculateScore has composite =
\* round(100 x (0.4 pronunciation + 0.3 fluency + 0.2 completeness + 0.1 clarity))
\* of its own four sub-scores, and the fixture returns fluency 1.0,
\* completeness 1.0, pronunciation 0.9, clarity 0.92, composite 95, grade C2.
C1_CompositeIsWeightedSum ==
    \A i \in 1..Len(scOut) :
        /\ scOut[i].composite = Round(TenTimesWeighted(scOut[i].individual))
        /\ scIn = FixtureInput =>
               /\ scOut[i].individual = [pronunciation |-> <<9, 10>>, fluency |-> <<1, 1>>,
                                         completeness |-> <<1, 1>>, clarity |-> <<23, 25>>]
               /\ scOut[i].composite = 95
               /\ scOut[i].grade = "C2"

C1_Witness ==
    /\ scIn = FixtureInput
    /\ Len(scOut) = 1
    /\ scOut[1].composite = 95
    /\ scOut[1].grade = "C2"

\* the highest CEFR letter whose threshold is at most the integer c
GradeOfComposite(c) ==
    IF c >= 92 THEN "C2" ELSE IF c >= 85 THEN "C1" ELSE IF c >= 75 THEN "B2"
    ELSE IF c >= 65 THEN "B1" ELSE IF c >= 55 THEN "A2" ELSE "A1"

\* C2: in every returned record the grade is the highest CEFR letter whose
\* threshold is at most the composite field of that record.
C2_GradeMatchesComposite ==
    \A i \in 1..Len(scOut) : scOut[i].grade = GradeOfComposite(scOut[i].composite)

\* C9: for every input each of the four sub-scores lies in [0,1] and the
\* composite is an integer in 0..100.
C9_ScoresInRange ==
    \A i \in 1..Len(scOut) :
        /\ \A k \in DOMAIN scOut[i].individual :
               /\ RLe(RInt(0), scOut[i].individual[k])
               /\ RLe(scOut[i].individual[k], RInt(1))
        /\ scOut[i].composite \in 0..100

-----------------------------------------------------------------------------
(* Claims about calculateFluencyScore, checked under SpecFluency *)

\* |duration - ideal| / ideal of the arguments of call i
Deviation(i) ==
    RDiv(RAbs(RSub(scIn[i].duration, scIn[i].idealDuration)), scIn[i].idealDuration)

\* the staircase of the claim
Staircase(deviation) ==
    CASE RLe(deviation, Rat(1, 10)) -> RInt(1)
      [] RLt(Rat(1, 10), deviation) /\ RLe(deviation, Rat(2, 10)) -> Rat(9, 10)
      [] RLt(Rat(2, 10), deviation) /\ RLe(deviation, Rat(3, 10)) -> Rat(8, 10)
      [] RLt(Rat(3, 10), deviation) /\ RLe(deviation, Rat(5, 10)) -> Rat(6, 10)
      [] RLt(Rat(5, 10), deviation) /\ RLe(deviation, Rat(7, 10)) -> Rat(4, 10)
      [] RLt(Rat(7, 10), deviation) -> RMax(Rat(1, 10), RSub(RInt(1), deviation))

\* C11: for positive duration and idealDuration the fluency score is the
\* staircase of the deviation (1.0 up to 0.1, 0.9 up to 0.2, 0.8 up to 0.3, 0.6
\* up to 0.5, 0.4 up to 0.7, else max(0.1, 1 - deviation)); of two calls the one
\* with the larger deviation never scores higher, and no score is below 0.1.
C11_FluencyStaircase ==
    /\ \A i \in 1..Len(scOut) :
           /\ scOut[i] = Staircase(Deviation(i))
           /\ RLe(Rat(1, 10), scOut[i])
    /\ \A i, j \in 1..Len(scOut) :
           RLe(Deviation(i), Deviation(j)) => RLe(scOut[j], scOut[i])

\* C11 witness: a call with the deviation 0.7 exactly, scored 0.4, and a call
\* with the deviation 0.8, past the staircase, scored 0.2
C11_Witness ==
    /\ Len(scOut) = 2
    /\ Deviation(1) = Rat(7, 10) /\ scOut[1] = Rat(4, 10)
    /\ Deviation(2) = Rat(8, 10) /\ scOut[2] = Rat(2, 10)

-----------------------------------------------------------------------------
(* Claims about the grades of calculateScore, checked under SpecGrades *)

\* the place of a grade in A1 < A2 < B1 < B2 < C1 < C2
GradeRank(grade) ==
    CHOOSE r \in 1..6 : <<"A1", "A2", "B1", "B2", "C1", "C2">>[r] = grade

\* C12: of two records returned by calculateScore, the one with the smaller
\* composite never has the higher grade under A1 < A2 < B1 < B2 < C1 < C2.
C12_GradeMonotone ==
    \A i, j \in 1..Len(scOut) :
        scOut[i].composite < scOut[j].composite
            => GradeRank(scOut[i].grade) <= GradeRank(scOut[j].grade)

\* C12 witness: two records with different composites and different grades
C12_Witness ==
    /\ Len(scOut) = 2
    /\ scOut[1].composite < scOut[2].composite
    /\ scOut[1].grade = "B1"
    /\ scOut[2].grade = "C1"

-----------------------------------------------------------------------------
(* Claims about the StorageManager, checked under SpecStorage *)

\* the calls of saveTestResult that stored their result
Saves == {i \in 1..Len(calls) : calls[i].operation = "saveTestResult" /\ calls[i].returned # 0}

\* C13: after saveTestResult stored r, the history is the entry made from r
\* followed by the entries stored before in their order, cut to the first
\* maxResults = 50, so that what is dropped is the oldest.
C13_NewestFirstAndCapped ==
    \A i \in Saves :
        LET before == calls[i].before
            after == calls[i].after
            r == calls[i].argument
        IN  /\ Len(after) = (IF Len(before) + 1 > 50 THEN 50 ELSE Len(before) + 1)
            /\ after[1].id = calls[i].returned
            /\ after[1].level = r.level
            /\ after[1].scores = r.scores
            /\ after[1].grade = r.grade
            /\ \A k \in 2..Len(after) : after[k] = before[k - 1]

\* C13 witness: a save into a full history, which dropped its oldest entry
C13_Witness ==
    \E i \in Saves :
        /\ Len(calls[i].before) = 50
        /\ Len(calls[i].after) = 50
        /\ calls[i].after[2] = calls[i].before[1]
        /\ \A k \in 1..50 : calls[i].after[k] # calls[i].before[50]

\* C28: after any sequence of saveTestResult, importData and clearHistory the
\* stored test history holds at most maxResults entries.
C28_HistoryCapped == Len(storage.results) <= maxResults

-----------------------------------------------------------------------------
(* Claims about the helpers of the phonetic analysis engine, checked under   *)
(* SpecHelpers                                                               *)

\* text.endsWith('?')
EndsInQuestionMark(text) ==
    /\ Len(text) > 0
    /\ Len(text[Len(text)]) > 0
    /\ text[Len(text)][Len(text[Len(text)])] = "?"

\* C15: analyzeIntonation expects the contour "rising" exactly when the text
\* ends in "?", and "falling" otherwise, also when a "?" stands before the end.
C15_RisingOnlyForFinalQuestionMark ==
    \A i \in 1..Len(calls) :
        calls[i].operation = "analyzeIntonation" =>
            calls[i].returned.contour.expected
                = (IF EndsInQuestionMark(calls[i].text) THEN "rising" ELSE "falling")

\* the segments tile [0, duration] in order: segment i of n runs from
\* (i - 1)/n * duration to i/n * duration
TilesDuration(segments, duration) ==
    LET n == Len(segments)
    IN  /\ \A i \in 1..n :
               /\ segments[i].startTime = RMul(Rat(i - 1, n), duration)
               /\ segments[i].endTime = RMul(Rat(i, n), duration)
        /\ n > 0 => /\ segments[1].startTime = RInt(0)
                    /\ segments[n].endTime = duration
        /\ \A i \in 1..(n - 1) : segments[i].endTime = segments[i + 1].startTime

\* C16: for every text and duration, segmentPhonetically returns one segment
\* per word of the text, and the segments tile the duration in time order
\* without gaps.
C16_OneSegmentPerWordGapless ==
    \A i \in 1..Len(calls) :
        calls[i].operation = "segmentPhonetically" =>
            /\ Len(calls[i].returned) = Len(calls[i].text)
            /\ TilesDuration(calls[i].returned, calls[i].duration)

\* C17: whatever phoneme, level and features analyzePhoneme is given, very
\* large and negative energy, clarity, formants and centroid included, the
\* accuracy it returns lies between 0 and 1.
C17_PhonemeAccuracyInUnitInterval ==
    \A i \in 1..Len(calls) :
        calls[i].operation = "analyzePhoneme" =>
            /\ RLe(RInt(0), calls[i].returned.accuracy)
            /\ RLe(calls[i].returned.accuracy, RInt(1))

\* C17 witness: a stop with a very large negative clarity, whose accuracy
\* before the clamp is far below 0, returned with accuracy 0
C17_Witness ==
    \E i \in 1..Len(calls) :
        /\ calls[i].operation = "analyzePhoneme"
        /\ calls[i].phoneme = <<"t">>
        /\ "spectral" \in DOMAIN calls[i].features
        /\ calls[i].features.spectral.clarity = RInt(0 - Extreme)
        /\ calls[i].features.energy = RInt(Extreme)
        /\ calls[i].returned.accuracy = RInt(0)

-----------------------------------------------------------------------------
(* Claims about the custom text upload, checked under SpecUpload *)

\* C18: once loadCustomText has parsed at least one valid sentence from the
\* file and returned, in every state without a recording in progress the
\* level of the application is 'CUSTOM' and the sentence presented is the
\* first uploaded one.
C18_CustomTextPresented ==
    (UploadReturned /\ Len(calls[1].CUSTOM) > 0 /\ ~app.isRecording) =>
        /\ app.currentLevel = "CUSTOM"
        /\ app.currentSentenceIndex = 0

-----------------------------------------------------------------------------
(* Claims about the AdaptiveTestingEngine, checked under SpecPlacement *)

\* the assessment of the engine
Assessment == adaptiveTesting.currentAssessment

\* C19: whatever scores processTestResult is fed after startPlacementTest, no
\* level records more than maxAttempts = 5 results and the placement is
\* complete after 30 calls at the latest.
C19_PlacementTerminates ==
    /\ \A l \in DOMAIN Assessment.levelScores :
           /\ Len(Assessment.levelScores[l]) <= 5
           /\ Assessment.levelAttempts[l] <= 5
    /\ calls.count <= 30
    /\ calls.count = 30 => Assessment.placementComplete

\* C19 witness: a placement that took five results at each of the six levels
\* and was completed by the thirtieth call
C19_Witness ==
    /\ calls.count = 30
    /\ Assessment.placementComplete
    /\ Assessment.assignedLevel = "C2"
    /\ \A l \in DOMAIN Assessment.levelScores : Len(Assessment.levelScores[l]) = 5

\* the sum of a sequence of scores
RECURSIVE SumOfScores(_)
SumOfScores(scores) == IF scores = <<>> THEN 0 ELSE Head(scores) + SumOfScores(Tail(scores))

\* C20: processTestResult moves the placement to another level only when at
\* least minAttempts = 3 results are recorded at the level it leaves and their
\* mean is at least 75, and then to the next level; otherwise the level stays.
C20_AdvanceOnlyOnEvidence ==
    (calls.last # <<>> /\ calls.last.levelAfter # calls.last.levelBefore) =>
        /\ Len(calls.last.recorded) >= 3
        /\ SumOfScores(calls.last.recorded) >= 75 * Len(calls.last.recorded)
        /\ \E i \in 1..(Len(levels) - 1) :
               calls.last.levelBefore = levels[i] /\ calls.last.levelAfter = levels[i + 1]

\* C20 witness: a call that moved the placement from A2 to B1 on exactly three
\* results
C20_Witness ==
    /\ calls.last # <<>>
    /\ ~calls.last.thrown
    /\ calls.last.levelBefore = "A2"
    /\ calls.last.levelAfter = "B1"
    /\ Len(calls.last.recorded) = 3
    /\ calls.last.action = "advance_level"

-----------------------------------------------------------------------------
(* Claims about level selection, checked under SpecSelect *)

\* C21: selectLevel changes currentLevel, currentSentenceIndex or testMode only
\* when nothing is recording, the placement is completed and the level asked
\* for is the assigned level or the one right above it; a name that is no CEFR
\* level changes nothing.
C21_SelectLevelFrame ==
    (calls # <<>> /\ calls[1].operation = "selectLevel") =>
        LET before == calls[1].before
            changed == \/ app.currentLevel # before.currentLevel
                       \/ app.currentSentenceIndex # before.currentSentenceIndex
                       \/ app.testMode # before.testMode
            allowed == /\ ~before.isRecording
                       /\ before.placementCompleted
                       /\ \E i \in 1..Len(levels) :
                              /\ levels[i] = calls[1].assignedLevel
                              /\ \/ calls[1].level = levels[i]
                                 \/ i < Len(levels) /\ calls[1].level = levels[i + 1]
        IN  changed => allowed

-----------------------------------------------------------------------------
(* Claims about the exercise generator (SpecGenerator)                       *)

\* for every exercise generateExercises creates, in the order of creation, the
\* number of the problem area it was created for
Origins(call) ==
    LET problems == identifyProblemAreas(call.phoneticAnalysis)
    IN Flatten([p \in 1..Len(problems) |->
                   [k \in 1..Len(createTargetedExercises(call.database, problems[p],
                                                         call.userLevel).exercises) |-> p]])

\* the problem areas that have an exercise among the returned ones
CoveredProblems(call) ==
    LET problems == identifyProblemAreas(call.phoneticAnalysis)
        created == TargetedForAll(call.database, problems, call.userLevel).exercises
        order == SortedIndices(Len(created), [i \in 1..Len(created) |-> created[i].priority])
        origins == Origins(call)
    IN {origins[order[i]] : i \in 1..Len(call.returned.exercises)}

UncoveredProblems(call) ==
    (1..Len(identifyProblemAreas(call.phoneticAnalysis))) \ CoveredProblems(call)

\* C22: generateExercises returns at most 6 exercises in non-increasing
\* priority order, and nextSession.hasMore is true exactly when some
\* identified problem area has none of its exercises among the returned ones.
C22_SessionPlan ==
    \A c \in 1..Len(calls) :
        LET returned == calls[c].returned
        IN /\ Len(returned.exercises) <= 6
           /\ \A i \in 1..(Len(returned.exercises) - 1) :
                  RLe(returned.exercises[i + 1].priority, returned.exercises[i].priority)
           /\ returned.nextSession.hasMore <=> UncoveredProblems(calls[c]) # {}

\* C29: generateExercises leaves the exercise database unchanged: two calls
\* with the same phonetic analysis and the same user level return the same
\* exercises, with the same sentence lists.
C29_GenerateLeavesDatabase ==
    /\ exerciseDatabase = initializeExerciseDatabase
    /\ \A i \in 1..Len(calls), j \in 1..Len(calls) :
           (calls[i].phoneticAnalysis = calls[j].phoneticAnalysis
               /\ calls[i].userLevel = calls[j].userLevel)
           => calls[i].returned.exercises = calls[j].returned.exercises

-----------------------------------------------------------------------------
(* Claims about the engine across reloads (SpecReload) and about the sentence *)
(* index of a placement test (SpecPlacement)                                 *)

\* C25: from startPlacementTest on, while the placement is not complete,
\* currentSentenceIndex is smaller than the number of sentences of the current
\* level, so getCurrentTestInfo returns a sentence that exists, and no call of
\* processTestResult takes the forced-progression branch (a decision to go to
\* the next sentence neither leaves the level nor completes the placement).
C25_SentenceIndexInRange ==
    Assessment # FreshAssessment =>
        /\ ~Assessment.placementComplete =>
               /\ Assessment.currentSentenceIndex
                      < Len(CEFR_LEVELS[Assessment.currentLevel].sentences)
               /\ getCurrentTestInfo(Assessment).kind = "testInfo"
               /\ getCurrentTestInfo(Assessment).sentenceIndex + 1
                      \in DOMAIN CEFR_LEVELS[Assessment.currentLevel].sentences
        /\ (calls.last # <<>> /\ ~calls.last.thrown /\ calls.last.action = "next_sentence") =>
               /\ calls.last.levelAfter = calls.last.levelBefore
               /\ ~Assessment.placementComplete

\* the fourth result at a level was followed by the decision to go on: the
\* last sentence of the level is the current one
C25_Witness ==
    /\ Assessment # FreshAssessment
    /\ ~Assessment.placementComplete
    /\ calls.last # <<>> /\ ~calls.last.thrown /\ calls.last.action = "next_sentence"
    /\ Assessment.levelAttempts[Assessment.currentLevel] = 4
    /\ Assessment.currentSentenceIndex
           = Len(CEFR_LEVELS[Assessment.currentLevel].sentences) - 1

\* C23: on every engine constructed with or without a stored assessment,
\* levelScores and levelAttempts hold an entry for the current level, so
\* neither getCurrentTestInfo nor processTestResult fails.
C23_EntriesForCurrentLevel ==
    /\ Assessment.currentLevel \in DOMAIN Assessment.levelScores
    /\ Assessment.currentLevel \in DOMAIN Assessment.levelAttempts
    /\ calls.last # <<>> => ~calls.last.thrown

-----------------------------------------------------------------------------
(* Claims about analyzeStress (SpecStress)                                   *)

\* C30: for every text and every outcome of the random variation of
\* simulateStressDetection, analyzeStress marks the pattern of every word as
\* correct, returns the accuracy 1 and returns no issues, whatever the audio
\* features are.
C30_StressAlwaysCorrect ==
    \A c \in 1..Len(calls) :
        calls[c].operation = "analyzeStress" =>
            LET returned == calls[c].returned
            IN /\ \A i \in 1..Len(returned.patterns) : returned.patterns[i].correct
               /\ RLe(RInt(1), returned.accuracy) /\ RLe(returned.accuracy, RInt(1))
               /\ returned.issues = <<>>

\* a text of two words was analysed and a stressed syllable was detected at
\* 0.8, the lowest outcome, while the syllables after it are unstressed
C30_Witness ==
    /\ Len(calls) = 1
    /\ calls[1].operation = "analyzeStress"
    /\ Len(calls[1].returned.patterns) = 2
    /\ Len(calls[1].returned.patterns[2].expected) = 3
    /\ calls[1].returned.patterns[2].detected[1] = Rat(8, 10)
    /\ calls[1].returned.patterns[2].detected[2] = RInt(0)
    /\ calls[1].returned.patterns[1].detected[1] = RAdd(Rat(8, 10), RMul(Rat(9, 10), Rat(4, 10)))

-----------------------------------------------------------------------------
(* Claims about recording sessions (SpecApp)                                 *)

\* the stopRecording invocations that have read the current sentence
ReadSentence(f) ==
    stops[f].pc \in {"awaitTranscribeAudio", "awaitGetMockAnalysis", "awaitAnalyzePhonetics"}
    \/ stops[f].scores # <<>>

\* C27: the sentence whose text and idealDuration score and persist a
\* recording is the sentence that was current when the recording was started,
\* even if nextSentence or selectLevel ran while stopRecording was suspended.
C27_SentenceOfTheRecording ==
    \A f \in 1..Len(stops) :
        ReadSentence(f) => stops[f].sentence = recordings[stops[f].recordingPromise].sentence

\* the MediaRecorders that were started and not stopped
RunningRecorders == {r \in 1..Len(recordings) : recordings[r].state = "recording"}

\* C26: at most one recording session is active at a time: under every
\* interleaving of startRecording and stopRecording at most one MediaRecorder
\* is running and at most one auto-stop timer is pending, and the only timer
\* that can fire is the one of the latest startRecording, so that no timer of
\* an earlier startRecording stops a later recording.
C26_OneRecordingSession ==
    /\ Cardinality(RunningRecorders) <= 1
    /\ Cardinality(timers.autoStop) <= 1
    /\ timers.autoStop \subseteq {app.autoStopTimer}

-----------------------------------------------------------------------------
(* Claims about the transcription client, checked under SpecTx *)

\* C6: a request that fails for a reason other than the timeout abort is
\* retried, up to retryAttempts = 3 more times, after waiting 2^retryCount
\* seconds; the error is rethrown only when those retries are exhausted (or on
\* the timeout abort).
C6_RetriesBeforeRethrow ==
    \A i \in 1..Len(txOut) :
        LET out == txOut[i]
        IN  /\ out.delays = [k \in 1..(out.requests - 1) |-> (2 ^ (k - 1)) * 1000]
            /\ (out.status = "thrown" /\ out.failure # "timeout")
                   => out.requests = retryAttempts + 1
            /\ (AttemptFailure(txIn[1]) \notin {"", "timeout"}) => out.requests >= 2

====
